---------------------------- MODULE Spec2Model ----------------------------
(***************************************************************************)
(* A model of libnunchuk's wallet store (NunchukWalletDb: the VTX and      *)
(* ADDRESS tables, the address cache, coin derivation) and of the Electrum *)
(* synchronizer that drives it.                                            *)
(*                                                                         *)
(* The module holds several specifications, one per component; each one    *)
(* moves its own variables and leaves the others at their idle values:     *)
(*   Spec      the transaction store (VTX table)                           *)
(*   SpecCoins GetCoinsFromTransactions / GetBalance over a transaction set*)
(*   SpecAddr  the ADDRESS table, the address cache and NewAddress         *)
(*   SpecSync  the synchronizer status machine and its guarded user calls  *)
(*   SpecSyncLive  SpecSync with its threads scheduled fairly               *)
(*   SpecUpd   UpdateTransactions: a history reconciled with the VTX table  *)
(*   SpecBlockchainSync  a sync pass over two addresses, batch/sequential  *)
(*   SpecCoinControl  tags, collections, COININFO, export and import       *)
(*   SpecRun          the status lock, the worker's tasks, reconnects      *)
(*   SpecCache        the address cache and the signer cache               *)
(*   SpecAncestry     GetAncestry over the coins of a transaction set      *)
(***************************************************************************)
EXTENDS Integers, Sequences, FiniteSets, TLC

VARIABLES
  vtx,      \* the VTX table: a set of rows, ID being the primary key
  ret,      \* what the last store operation was given and what it answered
  steps,    \* number of operations performed so far (bounded by MaxSteps)
  ledger,   \* SpecCoins: the stored transactions, in id order
  order,    \* SpecCoins: the row order the last GetTransactions returned
  coins,    \* SpecCoins: the coin map the last GetCoinsFromTransactions built
  balance,  \* SpecCoins: the last GetBalance call and its answer
  is_escrow,   \* SpecAddr: the wallet is an escrow (single address) wallet
  addr_table,  \* SpecAddr: the ADDRESS table, ADDR being the primary key
  addr_cache,  \* SpecAddr: addr_cache_[db_file_name_]
  paid,        \* SpecAddr: the addresses the outputs of the stored transactions pay
  active,      \* SpecAddr: the addresses the backend reports a status for
  online,      \* SpecAddr: the synchronizer status is READY or SYNCING
  batch,       \* SpecAddr: client_->support_batch_requests()
  newaddr,     \* SpecAddr: the last NewAddress call and what it registered
  status_,     \* SpecSync: ElectrumSynchronizer::status_
  sync_pc,     \* SpecSync: where the task Run() posted on the io thread stands
  requests,    \* SpecSync: the requests the user calls sent to the backend
  call,        \* SpecSync: the last user call and its answer
  waiter,      \* SpecSync: the thread inside WaitForReady
  sync_threw,  \* SpecSync: the last BlockchainSync of the task threw
  upd,         \* SpecUpd: the last UpdateTransactions call and its outcome
  cc,          \* SpecCoinControl: TAGS, COLLECTIONS, COINTAGS, COINCOLLECTIONS, COININFO
  ccret,       \* SpecCoinControl: the last coin-control call and the last export
  status_mutex_,  \* SpecRun: the thread that holds status_mutex_, "free" if none
  access,         \* SpecRun: the last read or write of status_
  thread_pc,      \* SpecRun: where the user thread and the worker stand
  worker_task,    \* SpecRun: the task the worker runs
  queue,          \* SpecRun: the tasks posted on the worker
  client_,        \* SpecRun: the ElectrumClient: its connection and state
  chain_tip_,     \* SpecRun: the cached chain tip, 0 when cleared
  scripthash_to_wallet_address_,  \* SpecRun: the scripthash map
  resets,         \* SpecRun: how often Run() cleared the caches
  applied,     \* SpecRun: the last update applied to the store
  connection_events, \* SpecRun: what connection_listener_ was given in this pass
  signer_table,   \* SpecCache: the SIGNER table
  signer_cache,   \* SpecCache: signer_cache_[db_file_name_]
  cached_before,  \* SpecCache: the cached entries older than the last DeleteWallet or ForceRefresh
  cache_read,  \* SpecCache: the last read of the address map or of the signers
  ancestry     \* SpecAncestry: the last GetAncestry call and its answer

txvars == <<vtx, ret, steps>>

(***************************************************************************)
(* Bounds of the model                                                     *)
(***************************************************************************)
MaxSteps == 4

\* transaction ids (hashes of transaction skeletons)
TxIds == {"A", "B"}

\* values a call may pass for fee, memo and change position
Metas == {1, 2}

\* heights a caller may pass: -1 unbroadcast, 0 pending, > 0 confirmed
Heights == {0 - 1, 0, 1}

(***************************************************************************)
(* Payloads (the VALUE column).  A payload is either the raw hex of a      *)
(* transaction or a PSBT of it carrying some number of signatures; either  *)
(* way it decodes to a transaction skeleton, whose hash is the txid.       *)
(***************************************************************************)
NSigners == 1

RawTx(t) == [tx |-> t, hex |-> TRUE, sigs |-> NSigners]

Psbt(t, k) == [tx |-> t, hex |-> FALSE, sigs |-> k]

RawTxs == {RawTx(t) : t \in TxIds}

Psbts == {Psbt(t, k) : t \in TxIds, k \in 0..NSigners}

\* DecodeRawTransaction(raw).GetHash() / DecodePsbt(psbt).tx.GetHash()
TxIdOf(value) == value.tx

(***************************************************************************)
(* The EXTRA column: the empty string (json = FALSE) or a JSON object; an  *)
(* absent key is <<>>, a present one <<v>>.                                *)
(***************************************************************************)
Null == <<>>

EmptyExtra ==
  [json |-> FALSE, signers |-> Null, outputs |-> Null, fee_rate |-> Null,
   subtract |-> Null, replace_txid |-> Null, schedule_time |-> Null,
   reject_msg |-> Null, replaced_by_txid |-> Null]

EmptyJson == [EmptyExtra EXCEPT !.json = TRUE]

\* json::parse(extra) throws parse_error on the empty string
ParseFails(extra) == ~extra.json

(***************************************************************************)
(* Transaction status                                                      *)
(***************************************************************************)
M == 1

\* status that GetTransactionFromStr derives from the payload and the height
StatusFromHeight(value, height) ==
  IF height > 0 THEN "CONFIRMED"
  ELSE IF height = 0 THEN "PENDING_CONFIRMATION"
  ELSE IF height = 0 - 2 THEN "NETWORK_REJECTED"
  ELSE IF value.hex \/ value.sigs >= M THEN "READY_TO_BROADCAST"
  ELSE "PENDING_SIGNATURES"

\* tx.get_signers() of a decoded payload: the signature snapshot
SignersOf(value) == value.sigs

(***************************************************************************)
(* SQL on the VTX table                                                    *)
(***************************************************************************)
NoRow == [id |-> "none"]

HasRow(tbl, id) == \E r \in tbl : r.id = id

RowOf(tbl, id) == CHOOSE r \in tbl : r.id = id

\* SELECT ... WHERE ID = ? AND HEIGHT = -1
HasPsbtRow(tbl, id) == \E r \in tbl : r.id = id /\ r.height = 0 - 1

\* INSERT INTO VTX ... (a primary-key conflict makes the statement fail;
\* the callers ignore sqlite3_step's result)
SqlInsert(tbl, row) == IF HasRow(tbl, row.id) THEN tbl ELSE tbl \cup {row}

\* a variant whose conflict clause forgets the height
SqlUpsertValueOnly(tbl, row) ==
  IF HasRow(tbl, row.id)
  THEN {IF r.id = row.id THEN [r EXCEPT !.value = row.value] ELSE r :
        r \in tbl}
  ELSE tbl \cup {row}

\* a variant that replaces the conflicting row (INSERT OR REPLACE)
SqlReplaceRow(tbl, row) == {r \in tbl : r.id # row.id} \cup {row}

\* a variant whose conflict clause also overwrites EXTRA
SqlUpsertWithExtra(tbl, row) ==
  IF HasRow(tbl, row.id)
  THEN {IF r.id = row.id
        THEN [r EXCEPT !.value = row.value, !.height = row.height,
                       !.extra = row.extra]
        ELSE r : r \in tbl}
  ELSE tbl \cup {row}

\* INSERT ... ON CONFLICT(ID) DO UPDATE SET VALUE=excluded.VALUE,
\* HEIGHT=excluded.HEIGHT
SqlUpsertValueHeight(tbl, row) ==
  IF HasRow(tbl, row.id)
  THEN {IF r.id = row.id
        THEN [r EXCEPT !.value = row.value, !.height = row.height]
        ELSE r : r \in tbl}
  ELSE tbl \cup {row}

\* a variant whose UPDATE forgets "AND HEIGHT = -1"
SqlUpdateValueAnyHeight(tbl, tx_id, value) ==
  {IF r.id = tx_id THEN [r EXCEPT !.value = value] ELSE r : r \in tbl}

\* UPDATE VTX SET VALUE = ?1 WHERE ID = ?2 AND HEIGHT = -1
SqlUpdatePsbtValue(tbl, tx_id, value) ==
  {IF r.id = tx_id /\ r.height = 0 - 1 THEN [r EXCEPT !.value = value] ELSE r :
   r \in tbl}

\* DELETE FROM VTX WHERE ID = ?
SqlDelete(tbl, id) == {r \in tbl : r.id # id}

(***************************************************************************)
(* GetTransaction and FillExtra                                            *)
(***************************************************************************)
\* a variant that reports REPLACED whatever the status derived from the height
FillExtraAnyStatus(extra, tx) ==
  IF extra.json /\ extra.replaced_by_txid # Null
  THEN [tx EXCEPT !.status = "REPLACED",
                  !.replaced_by_txid = extra.replaced_by_txid[1]]
  ELSE tx

FillExtra(extra, tx) ==
  IF ~extra.json THEN tx
  ELSE LET t1 == IF extra.signers # Null /\ (tx.height >= 0 \/ tx.hex)
                 THEN [tx EXCEPT !.signers = extra.signers[1]] ELSE tx
           t2 == IF extra.fee_rate # Null
                 THEN [t1 EXCEPT !.fee_rate = extra.fee_rate[1]] ELSE t1
           t3 == IF extra.replace_txid # Null
                 THEN [t2 EXCEPT !.replace_txid = extra.replace_txid[1]]
                 ELSE t2
           t4 == IF extra.schedule_time # Null
                 THEN [t3 EXCEPT !.schedule_time = extra.schedule_time[1]]
                 ELSE t3
       IN IF t4.status = "PENDING_CONFIRMATION" /\ extra.replaced_by_txid # Null
          THEN [t4 EXCEPT !.status = "REPLACED",
                          !.replaced_by_txid = extra.replaced_by_txid[1]]
          ELSE IF t4.status = "NETWORK_REJECTED" /\ extra.reject_msg # Null
          THEN [t4 EXCEPT !.reject_msg = extra.reject_msg[1]]
          ELSE t4

NotFoundTx == [found |-> FALSE]

\* the Transaction view of a row
TxView(r) ==
  FillExtra(r.extra,
    [found |-> TRUE, txid |-> r.id, value |-> r.value, hex |-> r.value.hex,
     height |-> r.height, status |-> StatusFromHeight(r.value, r.height),
     signers |-> SignersOf(r.value), fee |-> r.fee, fee_rate |-> 0,
     memo |-> r.memo, change_index |-> r.changepos,
     blocktime |-> r.blocktime, schedule_time |-> 0 - 1,
     replace_txid |-> "", replaced_by_txid |-> "", reject_msg |-> ""])

\* GetTransaction(tx_id): the view, or TX_NOT_FOUND
GetTransaction(tbl, id) ==
  IF HasRow(tbl, id) THEN TxView(RowOf(tbl, id)) ELSE NotFoundTx


(***************************************************************************)
(* Operations of the transaction store.  Every operation is one action; it *)
(* records in ret what it was called with and what it answered: err is     *)
(* "none", "TX_NOT_FOUND" (StorageException) or "parse_error" (the         *)
(* exception json::parse throws), updated the boolean result, tx the       *)
(* Transaction it returned.                                                *)
(***************************************************************************)
\* the block time the caller passes along with a height
BlockTimeAt(height) == IF height <= 0 THEN 0 ELSE 100 + height

Answer(op, id, id2, height, err, updated, tx) ==
  [op |-> op, id |-> id, id2 |-> id2, height |-> height, err |-> err,
   updated |-> updated, tx |-> tx]

InsertTransactionRow(raw_tx, height, blocktime, fee, memo, change_pos) ==
  [id |-> TxIdOf(raw_tx), value |-> raw_tx, height |-> height, fee |-> fee,
   memo |-> memo, changepos |-> change_pos, blocktime |-> blocktime,
   extra |-> EmptyExtra]

InsertTransaction(raw_tx, height, blocktime, fee, memo, change_pos) ==
  LET tx_id == TxIdOf(raw_tx)
      tbl == SqlUpsertValueHeight(vtx,
               InsertTransactionRow(raw_tx, height, blocktime, fee, memo,
                                    change_pos))
  IN /\ vtx' = tbl
     /\ ret' = Answer("InsertTransaction", tx_id, "", height, "none", TRUE,
                      GetTransaction(tbl, tx_id))

\* SetReplacedBy(old_txid, new_txid): [err, tbl]
SetReplacedBy(tbl, old_txid, new_txid) ==
  IF HasRow(tbl, old_txid)
  THEN LET old == RowOf(tbl, old_txid)
       IN IF ParseFails(old.extra)
          THEN [err |-> "parse_error", tbl |-> tbl]
          ELSE [err |-> "none",
                tbl |-> {IF r.id = old_txid
                         THEN [r EXCEPT
                                 !.extra.replaced_by_txid = <<new_txid>>]
                         ELSE r : r \in tbl}]
  ELSE [err |-> "none", tbl |-> tbl]

\* UpdateTransaction, height == -1: [err, updated, tbl]
UpdateTransactionPsbt(tbl, raw_tx) ==
  LET tx_id == TxIdOf(raw_tx)
  IN IF ~HasPsbtRow(tbl, tx_id)
     THEN [err |-> "TX_NOT_FOUND", updated |-> FALSE, tbl |-> tbl]
     ELSE LET row == RowOf(tbl, tx_id)
          IN IF ParseFails(row.extra)
             THEN [err |-> "parse_error", updated |-> FALSE, tbl |-> tbl]
             ELSE [err |-> "none", updated |-> TRUE,
                   tbl |-> {IF r.id = tx_id
                            THEN [r EXCEPT
                                    !.value = raw_tx,
                                    !.extra.signers = <<SignersOf(raw_tx)>>]
                            ELSE r : r \in tbl}]

\* the final UPDATE VTX SET VALUE, HEIGHT, BLOCKTIME [, EXTRA] WHERE ID
UpdateRow(tbl, tx_id, raw_tx, height, blocktime, extra) ==
  {IF r.id = tx_id
   THEN [r EXCEPT !.value = raw_tx, !.height = height,
                  !.blocktime = blocktime,
                  !.extra = IF extra = EmptyExtra THEN @ ELSE extra]
   ELSE r : r \in tbl}

\* the branch of UpdateTransaction that migrates the unbroadcast row
MigratesPsbt(tbl, tx_id, height) == height <= 0 /\ HasPsbtRow(tbl, tx_id)

\* UpdateTransaction, height /= -1: [err, updated, tbl]
UpdateTransactionRaw(tbl, raw_tx, height, blocktime, reject_msg) ==
  LET tx_id == TxIdOf(raw_tx)
  IN IF MigratesPsbt(tbl, tx_id, height)
     THEN LET row == RowOf(tbl, tx_id)
              e1 == [row.extra EXCEPT !.signers = <<SignersOf(row.value)>>]
              extra == IF reject_msg # ""
                       THEN [e1 EXCEPT !.reject_msg = <<reject_msg>>] ELSE e1
              srb == IF extra.replace_txid # Null
                     THEN SetReplacedBy(tbl, extra.replace_txid[1], tx_id)
                     ELSE [err |-> "none", tbl |-> tbl]
          IN IF ParseFails(row.extra) \/ srb.err # "none"
             THEN [err |-> "parse_error", updated |-> FALSE, tbl |-> tbl]
             ELSE [err |-> "none", updated |-> TRUE,
                   tbl |-> UpdateRow(srb.tbl, tx_id, raw_tx, height,
                                     blocktime, extra)]
     ELSE [err |-> "none", updated |-> HasRow(tbl, tx_id),
           tbl |-> UpdateRow(tbl, tx_id, raw_tx, height, blocktime,
                             EmptyExtra)]

UpdateTransaction(raw_tx, height, blocktime, reject_msg) ==
  LET tx_id == TxIdOf(raw_tx)
      r == IF height = 0 - 1 THEN UpdateTransactionPsbt(vtx, raw_tx)
           ELSE UpdateTransactionRaw(vtx, raw_tx, height, blocktime,
                                     reject_msg)
  IN /\ vtx' = r.tbl
     /\ ret' = Answer("UpdateTransaction", tx_id, "", height, r.err,
                      r.updated,
                      IF r.updated THEN GetTransaction(r.tbl, tx_id)
                      ELSE NotFoundTx)

CreatePsbtExtra(outputs, fee_rate, subtract, replace_tx) ==
  [EmptyJson EXCEPT !.outputs = <<outputs>>, !.fee_rate = <<fee_rate>>,
                    !.subtract = <<subtract>>,
                    !.replace_txid = IF replace_tx # "" THEN <<replace_tx>>
                                     ELSE Null]

CreatePsbt(psbt, fee, memo, change_pos, outputs, fee_rate, subtract, replace_tx) ==
  LET tx_id == TxIdOf(psbt)
      tbl == SqlUpsertValueHeight(vtx,
               [id |-> tx_id, value |-> psbt, height |-> 0 - 1, fee |-> fee,
                memo |-> memo, changepos |-> change_pos, blocktime |-> 0,
                extra |-> CreatePsbtExtra(outputs, fee_rate, subtract,
                                          replace_tx)])
  IN /\ vtx' = tbl
     /\ ret' = Answer("CreatePsbt", tx_id, replace_tx, 0 - 1, "none", TRUE,
                      GetTransaction(tbl, tx_id))

UpdatePsbt(psbt) ==
  LET tx_id == TxIdOf(psbt)
      updated == HasPsbtRow(vtx, tx_id)
      tbl == SqlUpdatePsbtValue(vtx, tx_id, psbt)
  IN /\ vtx' = tbl
     /\ ret' = Answer("UpdatePsbt", tx_id, "", 0 - 1, "none", updated,
                      IF updated THEN GetTransaction(tbl, tx_id)
                      ELSE NotFoundTx)

\* the row UpdatePsbtTxId inserts under new_id
ClonedRow(old, new_id) ==
  [id |-> new_id, value |-> old.value, height |-> 0 - 1, fee |-> old.fee,
   memo |-> old.memo, changepos |-> old.changepos, blocktime |-> 0,
   extra |-> old.extra]

\* a variant whose SELECT forgets "AND HEIGHT = -1"
FindsAnyRow(tbl, old_id) == HasRow(tbl, old_id)

\* SELECT * FROM VTX WHERE ID = ? AND HEIGHT = -1 finds a row
FindsOldPsbt(tbl, old_id) == HasPsbtRow(tbl, old_id)

UpdatePsbtTxId(old_id, new_id) ==
  IF FindsOldPsbt(vtx, old_id)
  THEN LET tbl == SqlDelete(SqlInsert(vtx, ClonedRow(RowOf(vtx, old_id),
                                                     new_id)), old_id)
       IN /\ vtx' = tbl
          /\ ret' = Answer("UpdatePsbtTxId", old_id, new_id, 0 - 1, "none",
                           TRUE, NotFoundTx)
  ELSE /\ vtx' = vtx
       /\ ret' = Answer("UpdatePsbtTxId", old_id, new_id, 0 - 1,
                        "TX_NOT_FOUND", FALSE, NotFoundTx)

DeleteTransaction(tx_id) ==
  /\ vtx' = SqlDelete(vtx, tx_id)
  /\ ret' = Answer("DeleteTransaction", tx_id, "", 0, "none",
                   HasRow(vtx, tx_id), NotFoundTx)

(***************************************************************************)
(* The transaction store as a state machine                                *)
(***************************************************************************)
Step == steps < MaxSteps /\ steps' = steps + 1

DoInsertTransaction ==
  \E raw \in RawTxs, h \in Heights, m \in Metas :
    Step /\ InsertTransaction(raw, h, BlockTimeAt(h), m, m, m)

DoCreatePsbt ==
  \E psbt \in Psbts, m \in Metas, rep \in TxIds \cup {""} :
    Step /\ rep # TxIdOf(psbt) /\ CreatePsbt(psbt, m, m, m, m, m, m = 1, rep)

DoUpdateTransaction ==
  \/ \E v \in Psbts \cup RawTxs :
       Step /\ UpdateTransaction(v, 0 - 1, 0, "")
  \/ \E raw \in RawTxs, h \in Heights \ {0 - 1} :
       Step /\ UpdateTransaction(raw, h, BlockTimeAt(h), "")
  \/ \E raw \in RawTxs :
       Step /\ UpdateTransaction(raw, 0 - 2, 0, "rejected")

DoUpdatePsbt == \E psbt \in Psbts : Step /\ UpdatePsbt(psbt)

DoUpdatePsbtTxId ==
  \E old \in TxIds, new \in TxIds : Step /\ UpdatePsbtTxId(old, new)

DoDeleteTransaction == \E t \in TxIds : Step /\ DeleteTransaction(t)

NoAnswer == Answer("", "", "", 0, "none", FALSE, NotFoundTx)

TxInit == vtx = {} /\ ret = NoAnswer /\ steps = 0

NoBalance == [called |-> FALSE, include_mempool |-> FALSE, amount |-> 0]

CoinsIdle ==
  ledger = <<>> /\ order = <<>> /\ coins = <<>> /\ balance = NoBalance

coinvars == <<ledger, order, coins, balance>>

addrvars ==
  <<is_escrow, addr_table, addr_cache, paid, active, online, batch, newaddr>>

\* no cached address map
NoCache == [present |-> FALSE, map |-> {}]

NoNewAddress ==
  [called |-> FALSE, internal |-> FALSE, batched |-> FALSE, current |-> 0,
   index |-> 0, returned |-> FALSE]

AddrIdle ==
  /\ is_escrow = FALSE /\ addr_table = {} /\ addr_cache = NoCache /\ paid = {}
  /\ active = {} /\ online = FALSE /\ batch = FALSE /\ newaddr = NoNewAddress

syncvars == <<status_, sync_pc, requests, call, waiter, sync_threw>>

NoCall == [seq |-> 0, op |-> "", err |-> "none", value |-> 0]

\* no thread is inside WaitForReady
NoWaiter == [pc |-> "none", slept |-> FALSE]

\* a synchronizer that was constructed and not yet run
SyncIdle ==
  /\ status_ = "UNINITIALIZED" /\ sync_pc = "idle" /\ requests = 0
  /\ call = NoCall /\ waiter = NoWaiter /\ sync_threw = FALSE

updvars == <<upd>>

\* UpdateTransactions was not called
NoUpdate ==
  [called |-> FALSE, overload |-> "", batched |-> FALSE, is_array |-> TRUE,
   history |-> <<>>, before |-> {}, after |-> {}, txs_hash |-> {},
   stored |-> {}, failed |-> {}, evicted |-> {}, notified |-> {},
   err |-> "none", isSynced |-> TRUE]

UpdIdle == upd = NoUpdate

ccvars == <<cc, ccret>>

\* the five coin-control tables, empty
NoCoinControl ==
  [tags |-> {}, collections |-> {}, cointags |-> {}, coincollections |-> {},
   coininfo |-> {}]

\* nothing was exported
NoBundle ==
  [exported |-> FALSE, source |-> NoCoinControl,
   data |-> [tags |-> {}, collections |-> {}, coininfo |-> {}]]

\* no coin-control call was made
NoCoinCall ==
  [op |-> "none", id |-> 0, updated |-> FALSE, gone |-> {}, bundle |-> NoBundle]

CoinControlIdle == cc = NoCoinControl /\ ccret = NoCoinCall

runvars ==
  <<status_mutex_, access, thread_pc, worker_task, queue, client_, chain_tip_,
    scripthash_to_wallet_address_, resets, applied, connection_events>>

\* status_ was not touched
NoAccess ==
  [thread |-> "none", kind |-> "none", site |-> "", locked |-> FALSE,
   notified |-> FALSE]

\* the worker runs no task
NoTask == [task |-> "none", conn |-> 0]

\* no ElectrumClient was constructed
NoClient == [conn |-> 0, alive |-> FALSE, listening |-> FALSE]

\* nothing was applied to the store
NotApplied == [called |-> FALSE, what |-> "", conn |-> 0, resets |-> 0]

\* a synchronizer whose Run() was not called
RunIdle ==
  /\ status_mutex_ = "free" /\ access = NoAccess
  /\ thread_pc = [user |-> "run", worker |-> "idle"]
  /\ worker_task = NoTask /\ queue = <<>> /\ client_ = NoClient
  /\ chain_tip_ = 0 /\ scripthash_to_wallet_address_ = {}
  /\ resets = 0 /\ applied = NotApplied /\ connection_events = <<>>

cachevars == <<signer_table, signer_cache, cached_before, cache_read>>

\* signer_cache_ has no entry for the file
NoSignerCache == [present |-> FALSE, signers |-> {}]

\* nothing was read
NoCacheRead == [op |-> "none", hit |-> FALSE, older |-> FALSE]

CacheIdle ==
  /\ signer_table = {} /\ signer_cache = NoSignerCache
  /\ cached_before = [address |-> FALSE, signer |-> FALSE]
  /\ cache_read = NoCacheRead

ancestryvars == <<ancestry>>

\* GetAncestry was not called
NoAncestry ==
  [called |-> FALSE, tx_id |-> 0, vout |-> 0, levels |-> <<>>,
   returned |-> FALSE]

AncestryIdle == ancestry = NoAncestry

Init == TxInit /\ CoinsIdle /\ AddrIdle /\ SyncIdle /\ UpdIdle /\ CoinControlIdle /\ RunIdle /\ CacheIdle /\ AncestryIdle

\* the variables the transaction store leaves alone
nontxvars == <<coinvars, addrvars, syncvars, updvars, ccvars, runvars, cachevars, ancestryvars>>

Next ==
  \/ DoInsertTransaction /\ UNCHANGED nontxvars
  \/ DoCreatePsbt /\ UNCHANGED nontxvars
  \/ DoUpdateTransaction /\ UNCHANGED nontxvars
  \/ DoUpdatePsbt /\ UNCHANGED nontxvars
  \/ DoUpdatePsbtTxId /\ UNCHANGED nontxvars
  \/ DoDeleteTransaction /\ UNCHANGED nontxvars

vars == <<txvars, coinvars, addrvars, syncvars, updvars, ccvars, runvars, cachevars, ancestryvars>>

Spec == Init /\ [][Next]_vars

TypeOK ==
  /\ \A r \in vtx : r.id \in TxIds /\ r.value \in RawTxs \cup Psbts
  /\ steps \in 0..MaxSteps


(***************************************************************************)
(* Claims about the transaction store (specification Spec)                 *)
(***************************************************************************)
RowsWithId(id) == {r \in vtx : r.id = id}

\* C1: InsertTransaction is an idempotent upsert: after every
\* InsertTransaction call (also one repeating the raw bytes of an earlier
\* call) the table holds exactly one row for the derived transaction id,
\* that row holds the raw bytes and the height passed to this call, and the
\* returned Transaction reports that height; no id ever has two rows.
C1_IdempotentUpsert ==
  /\ \A r1 \in vtx : \A r2 \in vtx : r1.id = r2.id => r1 = r2
  /\ ret.op = "InsertTransaction" =>
       /\ Cardinality(RowsWithId(ret.id)) = 1
       /\ \A r \in RowsWithId(ret.id) :
            r.height = ret.height /\ r.value = RawTx(ret.id)
       /\ ret.tx.found /\ ret.tx.height = ret.height

\* C1 witness: an InsertTransaction that hit a row an earlier
\* InsertTransaction had stored with another height (the block time, which
\* the conflict clause leaves alone, is still the earlier call's).
C1_Witness ==
  /\ ret.op = "InsertTransaction" /\ ret.height = 1
  /\ \E r \in RowsWithId(ret.id) :
       r.extra = EmptyExtra /\ r.blocktime = 0 /\ r.height = 1

\* C5: replacement chain: when B is stored unbroadcast with
\* replace_txid = A and A is stored in PENDING_CONFIRMATION, broadcasting B
\* (UpdateTransaction of B's raw bytes with height 0) completes without
\* error, after it GetTransaction(A) reports REPLACED with
\* replaced_by_txid = B, and B is retrievable under its own id.
C5_ReplacementChain ==
  [][\A a \in TxIds : \A b \in TxIds :
       ( /\ steps' = steps + 1
         /\ ret'.op = "UpdateTransaction" /\ ret'.id = b /\ ret'.height = 0
         /\ \E rb \in vtx : /\ rb.id = b /\ rb.height = 0 - 1
                            /\ rb.extra.replace_txid = <<a>>
         /\ \E ra \in vtx : ra.id = a /\ TxView(ra).status =
                                           "PENDING_CONFIRMATION" )
       => ( /\ ret'.err = "none"
            /\ GetTransaction(vtx', a).found
            /\ GetTransaction(vtx', a).status = "REPLACED"
            /\ GetTransaction(vtx', a).replaced_by_txid = b
            /\ GetTransaction(vtx', b).found
            /\ GetTransaction(vtx', b).txid = b )]_vars

C9_UpdatePsbtTxIdNotFound ==
  [][\A old \in TxIds :
       ( /\ steps' = steps + 1
         /\ ret'.op = "UpdatePsbtTxId" /\ ret'.id = old
         /\ ~\E o \in vtx : o.id = old /\ o.height = 0 - 1 )
       => (ret'.err = "TX_NOT_FOUND" /\ vtx' = vtx)]_vars

\* C9 witness: UpdatePsbtTxId refused a transaction that is stored but
\* broadcast already
C9_Witness ==
  /\ ret.op = "UpdatePsbtTxId" /\ ret.err = "TX_NOT_FOUND"
  /\ \E r \in vtx : r.id = ret.id /\ r.height >= 0

\* the step is a call of the store operation op
Called(op) == steps' = steps + 1 /\ ret'.op = op

\* C18: InsertTransaction on an id that already has a row overwrites only
\* the payload and the height: memo, extra, fee, change position and block
\* time of the row are left as they were, whatever the call passes, and no
\* other row changes.
C18_InsertKeepsColumns ==
  [][(Called("InsertTransaction") /\ \E r \in vtx : r.id = ret'.id)
     => vtx' = {IF r.id = ret'.id
                THEN [r EXCEPT !.value = [tx |-> ret'.id, hex |-> TRUE,
                                          sigs |-> NSigners],
                               !.height = ret'.height]
                ELSE r : r \in vtx}]_vars

\* InsertTransaction(height 1, block time 101) hit a row made by CreatePsbt:
\* the row is confirmed, still has its JSON extra and block time 0
C18_Witness ==
  /\ ret.op = "InsertTransaction" /\ ret.height = 1
  /\ \E r \in vtx : /\ r.id = ret.id /\ r.height = 1 /\ r.value.hex
                     /\ r.extra.json /\ r.blocktime = 0

\* the extra CreatePsbt builds from what it is asked for
RequestedExtra(m, replace_tx) ==
  [json |-> TRUE, signers |-> <<>>, outputs |-> <<m>>, fee_rate |-> <<m>>,
   subtract |-> <<m = 1>>,
   replace_txid |-> IF replace_tx = "" THEN <<>> ELSE <<replace_tx>>,
   schedule_time |-> <<>>, reject_msg |-> <<>>, replaced_by_txid |-> <<>>]

\* C19: CreatePsbt leaves the row of the PSBT's id at height -1 holding the
\* PSBT; a new row gets the requested outputs, fee rate, subtract flag and
\* replace_txid in its extra; on an existing row only payload and height
\* are overwritten and the existing extra is kept.
C19_CreatePsbtRow ==
  [][Called("CreatePsbt")
     => \E k \in 0..NSigners :
          LET psbt == [tx |-> ret'.id, hex |-> FALSE, sigs |-> k]
          IN IF \E r \in vtx : r.id = ret'.id
             THEN vtx' = {IF r.id = ret'.id
                          THEN [r EXCEPT !.value = psbt, !.height = 0 - 1]
                          ELSE r : r \in vtx}
             ELSE \E m \in Metas :
                    vtx' = vtx \cup
                      {[id |-> ret'.id, value |-> psbt, height |-> 0 - 1,
                        fee |-> m, memo |-> m, changepos |-> m,
                        blocktime |-> 0,
                        extra |-> RequestedExtra(m, ret'.id2)]}]_vars

\* CreatePsbt without replace_tx hit a row whose extra records a
\* replace_txid and a signer snapshot: both are still there
C19_Witness ==
  /\ ret.op = "CreatePsbt" /\ ret.id2 = ""
  /\ \E r \in vtx : /\ r.id = ret.id /\ r.height = 0 - 1
                     /\ r.extra.replace_txid # <<>> /\ r.extra.signers # <<>>

\* C20: UpdatePsbt replaces the payload of the row of the PSBT's id only
\* if that row is unbroadcast (height -1); otherwise (another height, or no
\* row) it returns false and leaves every row unchanged.
C20_UpdatePsbtUnbroadcastOnly ==
  [][Called("UpdatePsbt")
     => IF \E r \in vtx : r.id = ret'.id /\ r.height = 0 - 1
        THEN /\ ret'.updated
             /\ \E k \in 0..NSigners :
                  vtx' = {IF r.id = ret'.id
                          THEN [r EXCEPT !.value = [tx |-> ret'.id,
                                                    hex |-> FALSE, sigs |-> k]]
                          ELSE r : r \in vtx}
        ELSE ~ret'.updated /\ vtx' = vtx]_vars

\* UpdatePsbt answered false for a transaction stored at height >= 0
C20_Witness ==
  /\ ret.op = "UpdatePsbt" /\ ~ret.updated
  /\ \E r \in vtx : r.id = ret.id /\ r.height >= 0 /\ r.value.hex

\* the rows whose extra holds replaced_by_txid
ReplacedRows == {r \in vtx : r.extra.json /\ r.extra.replaced_by_txid # <<>>}

\* C22: a transaction whose extra holds replaced_by_txid reads as REPLACED
\* exactly when its height is 0 (PENDING_CONFIRMATION); at any other height
\* it reads with the status its height gives, not REPLACED.
C22_ReplacedOnlyWhilePending ==
  \A r \in ReplacedRows :
    LET tx == GetTransaction(vtx, r.id)
    IN /\ tx.found
       /\ tx.status = "REPLACED" <=> r.height = 0
       /\ r.height > 0 => tx.status = "CONFIRMED"
       /\ r.height = 0 - 1 =>
            tx.status \in {"PENDING_SIGNATURES", "READY_TO_BROADCAST"}

\* a replaced transaction was confirmed after all: UpdateTransaction read it
\* back as CONFIRMED
C22_Witness ==
  /\ ret.op = "UpdateTransaction" /\ ret.updated /\ ret.tx.status = "CONFIRMED"
  /\ \E r \in ReplacedRows : r.id = ret.id /\ r.height = 1

\* C28: the height of a stored row never moves from 0 or a positive value
\* back to -1, nor from a positive value back to 0.
C28_ForwardOnly ==
  [][\A r \in vtx : \A q \in vtx' :
       q.id = r.id => /\ ~(r.height >= 0 /\ q.height = 0 - 1)
                      /\ ~(r.height > 0 /\ q.height = 0)]_vars

\* an unbroadcast row with a JSON extra is stored for the id of the call,
\* and the row it replaces, when stored, has a JSON extra as well
UnbroadcastBefore ==
  \E r \in vtx : /\ r.id = ret'.id /\ r.height = 0 - 1 /\ r.extra.json
                  /\ \A o \in vtx : r.extra.replace_txid = <<o.id>> => o.extra.json

\* C29: UpdateTransaction with height >= 0 on a transaction stored as
\* unbroadcast puts the signer snapshot of the stored PSBT into extra and,
\* when the row carries replace_txid, marks the replaced transaction with
\* replaced_by_txid, for height 0 and for a positive height alike.
C29_MigratesOnBroadcast ==
  [][(Called("UpdateTransaction") /\ ret'.height >= 0 /\ UnbroadcastBefore)
     => LET old == CHOOSE r \in vtx : r.id = ret'.id
            replaced == {r \in vtx \ {old} : old.extra.replace_txid = <<r.id>>}
        IN /\ \E q \in vtx' : /\ q.id = ret'.id /\ q.height = ret'.height
                               /\ q.extra.signers = <<old.value.sigs>>
           /\ \A r \in replaced :
                \E q \in vtx' : /\ q.id = r.id
                                /\ q.extra.replaced_by_txid = <<ret'.id>>]_vars

\* C30: UpdateTransaction with height -1 updates only an existing
\* unbroadcast row of the transaction's own id: the payload is replaced,
\* extra.signers becomes the signature snapshot of the new payload, every
\* other key of extra and the height -1 stay; without such a row it fails
\* with TX_NOT_FOUND and changes nothing.
C30_UpdateUnbroadcast ==
  [][(Called("UpdateTransaction") /\ ret'.height = 0 - 1)
     => IF \E r \in vtx : r.id = ret'.id /\ r.height = 0 - 1
        THEN /\ ret'.err = "none" /\ ret'.updated
             /\ \E v \in Psbts \cup RawTxs :
                  /\ v.tx = ret'.id
                  /\ vtx' = {IF r.id = ret'.id
                              THEN [r EXCEPT !.value = v,
                                             !.extra.signers = <<v.sigs>>]
                              ELSE r : r \in vtx}
        ELSE ret'.err = "TX_NOT_FOUND" /\ vtx' = vtx]_vars


\* an UpdatePsbtTxId(old, new) call that succeeds on an unbroadcast row old
RenamedPsbt(old, new) ==
  /\ steps' = steps + 1
  /\ ret'.op = "UpdatePsbtTxId" /\ ret'.id = old /\ ret'.id2 = new
  /\ ret'.err = "none"
  /\ \E o \in vtx : o.id = old /\ o.height = 0 - 1

NTx == 4

CoinTxs == 1..NTx

\* addresses of the wallet (GetAllAddressData) and the change ones among them
MyAddresses == {"a1", "a2"}

ChangeAddresses == {"a2"}

IsMyAddress(address) == address \in MyAddresses

IsMyChange(address) == address \in ChangeAddresses

\* tx.get_inputs(): pairs <<txid, vout>>; txid 0 is a foreign transaction
InputsOf(t) ==
  CASE t = 1 -> << <<0, 0>> >>
    [] t = 2 -> << <<1, 0>> >>
    [] t = 3 -> << <<1, 0>>, <<1, 1>> >>
    [] t = 4 -> << <<1, 1>> >>
    [] OTHER -> << <<3, 0>> >>

\* tx.get_outputs(): pairs <<address, amount>>
OutputsOf(t) ==
  CASE t = 1 -> << <<"a1", 5>>, <<"a2", 2>> >>
    [] t = 2 -> << <<"x", 3>>, <<"a2", 1>> >>
    [] t = 3 -> << <<"a1", 6>> >>
    [] t = 4 -> << <<"x", 2>> >>
    [] OTHER -> << <<"a2", 4>> >>

\* the heights and statuses a stored transaction is read with
TxStates ==
  {[height |-> 1, status |-> "CONFIRMED"],
   [height |-> 0, status |-> "PENDING_CONFIRMATION"],
   [height |-> 0, status |-> "REPLACED"],
   [height |-> 0 - 1, status |-> "READY_TO_BROADCAST"],
   [height |-> 0 - 1, status |-> "PENDING_SIGNATURES"]}

StoredTx(t, st) ==
  [txid |-> t, height |-> st.height, status |-> st.status,
   inputs |-> InputsOf(t), outputs |-> OutputsOf(t)]

\* CoinStatus, in the order of the enumeration
CoinStatusRank(status) ==
  CASE status = "INCOMING_PENDING_CONFIRMATION" -> 0
    [] status = "CONFIRMED" -> 1
    [] status = "OUTGOING_PENDING_SIGNATURES" -> 2
    [] status = "OUTGOING_PENDING_BROADCAST" -> 3
    [] status = "OUTGOING_PENDING_CONFIRMATION" -> 4
    [] OTHER -> 5

\* a default-constructed UnspentOutput, what coins[id] creates
DefaultCoin ==
  [txid |-> 0, vout |-> 0, address |-> "", amount |-> 0, height |-> 0,
   status |-> "INCOMING_PENDING_CONFIRMATION", change |-> FALSE]

\* CoinId(tx_id, vout)
CoinId(tx_id, vout) == <<tx_id, vout>>

\* coins[id]
CoinAt(cs, id) == IF id \in DOMAIN cs THEN cs[id] ELSE DefaultCoin

Put(cs, id, coin) == [k \in DOMAIN cs \cup {id} |-> IF k = id THEN coin ELSE cs[k]]

\* a variant that overwrites the status
OverwriteStatus(coin, status) == [coin EXCEPT !.status = status]

\* set_status: raise the status, never lower it
SetStatus(coin, status) ==
  IF CoinStatusRank(coin.status) < CoinStatusRank(status)
  THEN [coin EXCEPT !.status = status] ELSE coin

\* tx_map.count(id) / tx_map[id]: insert keeps the first transaction of an id
InTxMap(txs, id) == \E i \in 1..Len(txs) : txs[i].txid = id

TxMapAt(txs, id) ==
  txs[CHOOSE i \in 1..Len(txs) :
        txs[i].txid = id /\ \A j \in 1..(i - 1) : txs[j].txid # id]

HasInput(tx, id) == \E k \in 1..Len(tx.inputs) : CoinId(tx.inputs[k][1], tx.inputs[k][2]) = id

\* pass 1: the positions of the confirmed transactions that claim coin id
Claimants(txs, id) == {i \in 1..Len(txs) : txs[i].height > 0 /\ HasInput(txs[i], id)}

\* used_by.count(id)
InUsedBy(txs, id) == Claimants(txs, id) # {}

\* used_by[id]: the last confirmed transaction that claims the coin
UsedBy(txs, id) ==
  txs[CHOOSE i \in Claimants(txs, id) : \A j \in Claimants(txs, id) : j <= i].txid

\* a variant that never finds a conflict
NeverInvalid(txs, tx) == FALSE

\* pass 2: an input of tx is claimed by another transaction
Invalid(txs, tx) ==
  \E k \in 1..Len(tx.inputs) :
    LET id == CoinId(tx.inputs[k][1], tx.inputs[k][2])
    IN InUsedBy(txs, id) /\ UsedBy(txs, id) # tx.txid

\* pass 2 skips REPLACED and NETWORK_REJECTED transactions
Skipped(tx) == tx.status = "REPLACED" \/ tx.status = "NETWORK_REJECTED"

\* the status a spending transaction gives the coin it spends
OutgoingStatus(tx) ==
  CASE tx.status = "CONFIRMED" -> "SPENT"
    [] tx.status = "PENDING_CONFIRMATION" -> "OUTGOING_PENDING_CONFIRMATION"
    [] tx.status = "READY_TO_BROADCAST" -> "OUTGOING_PENDING_BROADCAST"
    [] tx.status = "PENDING_SIGNATURES" -> "OUTGOING_PENDING_SIGNATURES"
    [] OTHER -> ""

\* one input of tx
ApplyInput(cs, txs, tx, k) ==
  LET input == tx.inputs[k]
      id == CoinId(input[1], input[2])
  IN IF ~InTxMap(txs, input[1]) THEN cs
     ELSE LET prev_tx == TxMapAt(txs, input[1])
              address == prev_tx.outputs[input[2] + 1][1]
              c1 == [CoinAt(cs, id) EXCEPT
                       !.txid = input[1], !.vout = input[2],
                       !.address = address,
                       !.amount = prev_tx.outputs[input[2] + 1][2],
                       !.height = prev_tx.height]
              c2 == IF OutgoingStatus(tx) # ""
                    THEN SetStatus(c1, OutgoingStatus(tx)) ELSE c1
          IN IF ~IsMyAddress(address) THEN cs
             ELSE Put(cs, id, [c2 EXCEPT !.change = IsMyChange(address)])

RECURSIVE ApplyInputs(_, _, _, _)
ApplyInputs(cs, txs, tx, k) ==
  IF k > Len(tx.inputs) THEN cs
  ELSE ApplyInputs(ApplyInput(cs, txs, tx, k), txs, tx, k + 1)

\* one output of tx
ApplyOutput(cs, tx, vout) ==
  LET output == tx.outputs[vout + 1]
      id == CoinId(tx.txid, vout)
      c1 == [CoinAt(cs, id) EXCEPT
               !.txid = tx.txid, !.vout = vout, !.address = output[1],
               !.amount = output[2], !.height = tx.height]
      c2 == SetStatus(c1, IF tx.height > 0 THEN "CONFIRMED"
                          ELSE "INCOMING_PENDING_CONFIRMATION")
  IN IF ~IsMyAddress(output[1]) THEN cs
     ELSE Put(cs, id, [c2 EXCEPT !.change = IsMyChange(output[1])])

RECURSIVE ApplyOutputs(_, _, _)
ApplyOutputs(cs, tx, vout) ==
  IF vout >= Len(tx.outputs) THEN cs
  ELSE ApplyOutputs(ApplyOutput(cs, tx, vout), tx, vout + 1)

\* pass 2, from the i-th transaction on
RECURSIVE Replay(_, _, _)
Replay(cs, txs, i) ==
  IF i > Len(txs) THEN cs
  ELSE IF Skipped(txs[i]) \/ Invalid(txs, txs[i]) THEN Replay(cs, txs, i + 1)
  ELSE Replay(ApplyOutputs(ApplyInputs(cs, txs, txs[i], 1), txs[i], 0),
              txs, i + 1)

GetCoinsFromTransactions(txs) == Replay(<<>>, txs, 1)

\* a variant that leaves the coins being spent in a pending transaction in
ExcludesSpentOnly(coin, include_mempool) == coin.status = "SPENT"

\* the coins GetBalance leaves out
ExcludedFromBalance(coin, include_mempool) ==
  \/ coin.status = "SPENT"
  \/ coin.status = "OUTGOING_PENDING_CONFIRMATION"
  \/ /\ ~include_mempool /\ ~coin.change
     /\ coin.status = "INCOMING_PENDING_CONFIRMATION"

\* GetBalance's loop over the coins of ids
RECURSIVE BalanceOver(_, _, _)
BalanceOver(cs, ids, include_mempool) ==
  IF ids = {} THEN 0
  ELSE LET id == CHOOSE k \in ids : TRUE
       IN (IF ExcludedFromBalance(cs[id], include_mempool) THEN 0
           ELSE cs[id].amount)
          + BalanceOver(cs, ids \ {id}, include_mempool)

GetBalance(cs, include_mempool) == BalanceOver(cs, DOMAIN cs, include_mempool)

(***************************************************************************)
(* SpecCoins: a wallet whose VTX table holds some of the transactions, in  *)
(* any status; every read returns the rows in some order.                  *)
(***************************************************************************)
\* the sequences over the members of S without repetition
RECURSIVE Orderings(_)
Orderings(S) ==
  IF S = {} THEN {<<>>}
  ELSE UNION {{<<x>> \o o : o \in Orderings(S \ {x})} : x \in S}

\* the ledgers: for every subset of the universe, its rows in id order
RECURSIVE SortedSeq(_)
SortedSeq(S) ==
  IF S = {} THEN <<>>
  ELSE LET m == CHOOSE x \in S : \A y \in S : x <= y
       IN <<m>> \o SortedSeq(S \ {m})

Ledgers ==
  UNION {{[i \in 1..Cardinality(S) |-> StoredTx(SortedSeq(S)[i], f[SortedSeq(S)[i]])] :
            f \in [S -> TxStates]} : S \in SUBSET CoinTxs}

CoinsInit ==
  /\ ledger \in Ledgers
  /\ order = <<>>
  /\ coins = <<>>
  /\ balance = NoBalance

\* A read changes nothing in the table, so a second read can return only
\* what the first one could: a behaviour holds one read.
NotRead == steps = 0

\* the rows of the ledger in the order o
Reordered(o) == [i \in 1..Len(ledger) |-> ledger[o[i]]]

\* GetCoins: GetTransactions returns the rows in some order, the coin map
\* is derived from that sequence
DoGetCoins ==
  /\ NotRead
  /\ steps' = 1
  /\ \E o \in Orderings(1..Len(ledger)) :
       /\ order' = Reordered(o)
       /\ coins' = GetCoinsFromTransactions(Reordered(o))
  /\ balance' = NoBalance
  /\ UNCHANGED <<ledger, vtx, ret>>

\* GetBalance(include_mempool), over the coins of some row order
DoGetBalance ==
  /\ NotRead
  /\ steps' = 1
  /\ \E o \in Orderings(1..Len(ledger)), include_mempool \in BOOLEAN :
       /\ order' = Reordered(o)
       /\ coins' = GetCoinsFromTransactions(Reordered(o))
       /\ balance' = [called |-> TRUE, include_mempool |-> include_mempool,
                      amount |-> GetBalance(GetCoinsFromTransactions(Reordered(o)),
                                            include_mempool)]
  /\ UNCHANGED <<ledger, vtx, ret>>

\* the variables the coin derivation leaves alone
noncoinvars == <<addrvars, syncvars, updvars, ccvars, runvars, cachevars, ancestryvars>>

InitCoins == TxInit /\ CoinsInit /\ AddrIdle /\ SyncIdle /\ UpdIdle /\ CoinControlIdle /\ RunIdle /\ CacheIdle /\ AncestryIdle

NextCoins ==
  \/ DoGetCoins /\ UNCHANGED noncoinvars
  \/ DoGetBalance /\ UNCHANGED noncoinvars

SpecCoins == InitCoins /\ [][NextCoins]_vars

(***************************************************************************)
(* Claims about the coin derivation.                                       *)
(***************************************************************************)
\* a read has returned
HasRead == steps = 1 /\ order # <<>>

\* the coins, spent by stored transactions, of which one is id
SpendersOf(txs, id) == {i \in 1..Len(txs) : HasInput(txs[i], id)}

\* no coin is claimed by two confirmed transactions
NoConflictingDoubleSpend(txs) ==
  \A i, j \in 1..Len(txs) :
    (i # j /\ txs[i].height > 0 /\ txs[j].height > 0)
      => ~\E k \in 1..Len(txs[i].inputs) :
            HasInput(txs[j], CoinId(txs[i].inputs[k][1], txs[i].inputs[k][2]))

\* C2: GetCoinsFromTransactions is order-independent: for a transaction set
\* in which no two confirmed transactions spend the same coin, every
\* permutation of the set derives the same coins with the same status.
C2_OrderIndependent ==
  (HasRead /\ NoConflictingDoubleSpend(ledger))
    => LET ref == GetCoinsFromTransactions(ledger)
       IN /\ DOMAIN coins = DOMAIN ref
          /\ \A id \in DOMAIN coins : coins[id].status = ref[id].status

\* a read in another order than the ledger's, in which the spender of T1:0
\* comes before T1 and the coin ends SPENT
C2_Witness ==
  /\ HasRead /\ NoConflictingDoubleSpend(ledger)
  /\ Len(order) >= 3 /\ order # ledger
  /\ order[1].txid = 2 /\ order[1].height > 0
  /\ CoinId(1, 0) \in DOMAIN coins
  /\ coins[CoinId(1, 0)].status = "SPENT"

\* an unconfirmed transaction with an input that usedBy gives to another one
Shadowed(txs, i) ==
  /\ txs[i].height <= 0
  /\ \E k \in 1..Len(txs[i].inputs) :
       LET id == CoinId(txs[i].inputs[k][1], txs[i].inputs[k][2])
       IN \E j \in 1..Len(txs) :
            /\ txs[j].height > 0 /\ txs[j].txid # txs[i].txid
            /\ HasInput(txs[j], id)

\* the rows with the i-th one read as a replaced transaction
WithoutEffectsOf(txs, i) ==
  [j \in 1..Len(txs) |-> IF j = i THEN [txs[j] EXCEPT !.status = "REPLACED"]
                         ELSE txs[j]]

\* the effects of the i-th transaction are in the coin map
Contributes(cs, txs, i) ==
  /\ \A v \in 0..(Len(txs[i].outputs) - 1) :
       IsMyAddress(txs[i].outputs[v + 1][1])
         => /\ CoinId(txs[i].txid, v) \in DOMAIN cs
            /\ cs[CoinId(txs[i].txid, v)].amount = txs[i].outputs[v + 1][2]
  /\ \A k \in 1..Len(txs[i].inputs) :
       LET id == CoinId(txs[i].inputs[k][1], txs[i].inputs[k][2])
       IN (id \in DOMAIN cs /\ OutgoingStatus(txs[i]) # "")
            => CoinStatusRank(cs[id].status)
                 >= CoinStatusRank(OutgoingStatus(txs[i]))

\* C3: conflict exclusion: an unconfirmed transaction one of whose inputs is
\* claimed in usedBy by another transaction stays in the table but the coin
\* map is the one derived without its effects, and an unconfirmed
\* transaction spending the same coin that is not shadowed has its input and
\* output effects in the coin map.
C3_ConflictExclusion ==
  HasRead
    => \A i \in 1..Len(order) :
         /\ Shadowed(order, i)
              => /\ \E j \in 1..Len(ledger) : ledger[j] = order[i]
                 /\ coins = GetCoinsFromTransactions(WithoutEffectsOf(order, i))
         /\ (order[i].height <= 0 /\ order[i].status # "REPLACED"
             /\ ~Shadowed(order, i))
              => Contributes(coins, order, i)

\* T2 and T3 are unconfirmed and both spend T1:0; T3 is shadowed by the
\* confirmed T4, which spends T1:1; T2 is not: T1:0 has T2's status and T3
\* has no coin
C3_Witness ==
  /\ HasRead /\ Len(order) = 4
  /\ \E i, j, k \in 1..4 :
       /\ order[i].txid = 2 /\ order[i].status = "PENDING_SIGNATURES"
       /\ order[j].txid = 3 /\ order[j].status = "PENDING_CONFIRMATION"
       /\ order[k].txid = 4 /\ order[k].status = "CONFIRMED"
       /\ Shadowed(order, j) /\ ~Shadowed(order, i)
  /\ CoinId(1, 0) \in DOMAIN coins
  /\ coins[CoinId(1, 0)].status = "OUTGOING_PENDING_SIGNATURES"
  /\ CoinId(3, 0) \notin DOMAIN coins

\* the coins that count for the balance
Counted(cs, include_mempool) ==
  {id \in DOMAIN cs :
     /\ cs[id].status \notin {"SPENT", "OUTGOING_PENDING_CONFIRMATION"}
     /\ (include_mempool \/ cs[id].change
         \/ cs[id].status # "INCOMING_PENDING_CONFIRMATION")}

RECURSIVE SumAmounts(_, _)
SumAmounts(cs, ids) ==
  IF ids = {} THEN 0
  ELSE LET id == CHOOSE k \in ids : TRUE
       IN cs[id].amount + SumAmounts(cs, ids \ {id})

\* an owned output of a confirmed stored transaction, spent by stored
\* transactions that are all unbroadcast (height -1)
SpentOnlyUnbroadcast(txs, id) ==
  /\ \E i \in 1..Len(txs) :
       /\ txs[i].txid = id[1] /\ txs[i].height > 0
       /\ id[2] < Len(txs[i].outputs)
       /\ IsMyAddress(txs[i].outputs[id[2] + 1][1])
  /\ SpendersOf(txs, id) # {}
  /\ \A i \in SpendersOf(txs, id) : txs[i].height = 0 - 1

\* C6: GetBalance is the sum of the amounts of the derived coins that are
\* neither SPENT nor OUTGOING_PENDING_CONFIRMATION (nor, without the mempool,
\* non-change INCOMING_PENDING_CONFIRMATION), and a confirmed owned coin
\* spent only by unbroadcast transactions is one of the coins counted.
C6_Balance ==
  (HasRead /\ balance.called)
    => /\ balance.amount
            = SumAmounts(coins, Counted(coins, balance.include_mempool))
       /\ \A t \in CoinTxs, v \in 0..1 :
            SpentOnlyUnbroadcast(order, CoinId(t, v))
              => /\ CoinId(t, v) \in Counted(coins, balance.include_mempool)
                 /\ balance.amount >= coins[CoinId(t, v)].amount

\* T1 is confirmed, T2 spends T1:0 and is unbroadcast: the 5 of T1:0 count
C6_Witness ==
  /\ HasRead /\ balance.called /\ ~balance.include_mempool
  /\ SpentOnlyUnbroadcast(order, CoinId(1, 0))
  /\ coins[CoinId(1, 0)].status = "OUTGOING_PENDING_BROADCAST"
  /\ \E i \in 1..Len(order) : order[i].status = "CONFIRMED" /\ order[i].txid = 4
  /\ balance.amount = 5 + 1


(***************************************************************************)
(* SpecAncestry: GetAncestry over the transactions T1..T5, read in id      *)
(* order or in the reverse order.                                          *)
(***************************************************************************)
AncestryTxs == {1, 2, 3, 4, 5}

\* the statuses the transactions of an ancestry are stored with
AncestryStates ==
  {s \in TxStates : s.status \in {"CONFIRMED", "PENDING_CONFIRMATION", "REPLACED"}}

AncestryLedgers ==
  UNION {{[i \in 1..Cardinality(S) |-> StoredTx(SortedSeq(S)[i], f[SortedSeq(S)[i]])] :
            f \in [S -> AncestryStates]} : S \in SUBSET AncestryTxs}

\* the coins a call may ask for
AncestryQueries == {CoinId(t, vout) : t \in AncestryTxs, vout \in {0, 1}}

\* a variant that looks at the first input only
FirstInputCoin(cs, tx, k) ==
  IF k > 1 \/ Len(tx.inputs) = 0 THEN <<>>
  ELSE LET id == CoinId(tx.inputs[1][1], tx.inputs[1][2])
       IN IF id \in DOMAIN cs THEN <<cs[id]>> ELSE <<>>

\* for (auto&& input : tx.get_inputs()) if (coins.count(id)) push_back
RECURSIVE InputCoins(_, _, _)
InputCoins(cs, tx, k) ==
  IF k > Len(tx.inputs) THEN <<>>
  ELSE LET id == CoinId(tx.inputs[k][1], tx.inputs[k][2])
       IN (IF id \in DOMAIN cs THEN <<cs[id]>> ELSE <<>>)
          \o InputCoins(cs, tx, k + 1)

\* one round of the loop: the grandparents of the coins of parents
RECURSIVE Grandparents(_, _, _, _)
Grandparents(cs, txs, parents, i) ==
  IF i > Len(parents) THEN <<>>
  ELSE (IF ~InTxMap(txs, parents[i].txid) THEN <<>>
        ELSE InputCoins(cs, TxMapAt(txs, parents[i].txid), 1))
       \o Grandparents(cs, txs, parents, i + 1)

\* while (true): the loop has no bound of its own; a walk that is longer
\* than the number of stored transactions has met a transaction twice and
\* does not end
RECURSIVE AncestryLoop(_, _, _, _)
AncestryLoop(cs, txs, parents, found) ==
  LET grandparents == Grandparents(cs, txs, parents, 1)
  IN IF grandparents = <<>> THEN [levels |-> found, returned |-> TRUE]
     ELSE IF Len(found) > Len(txs) THEN [levels |-> found, returned |-> FALSE]
     ELSE AncestryLoop(cs, txs, grandparents, Append(found, grandparents))

\* GetAncestry; coins[CoinId(tx_id, vout)] creates the coin it does not find
GetAncestry(txs, tx_id, vout) ==
  LET derived == GetCoinsFromTransactions(txs)
      cs == IF CoinId(tx_id, vout) \in DOMAIN derived THEN derived
            ELSE Put(derived, CoinId(tx_id, vout), DefaultCoin)
  IN AncestryLoop(cs, txs, <<cs[CoinId(tx_id, vout)]>>, <<>>)

AncestryInit ==
  /\ ledger \in AncestryLedgers
  /\ order = <<>> /\ coins = <<>> /\ balance = NoBalance
  /\ ancestry = NoAncestry

\* the ledger from its last row to its first
Reversed == [i \in 1..Len(ledger) |-> ledger[Len(ledger) + 1 - i]]

DoGetAncestry ==
  /\ NotRead
  /\ steps' = 1
  /\ \E txs \in {ledger, Reversed}, id \in AncestryQueries :
       /\ order' = txs
       /\ coins' = GetCoinsFromTransactions(txs)
       /\ ancestry' = [called |-> TRUE, tx_id |-> id[1], vout |-> id[2],
                       levels |-> GetAncestry(txs, id[1], id[2]).levels,
                       returned |-> GetAncestry(txs, id[1], id[2]).returned]
  /\ UNCHANGED <<ledger, balance, vtx, ret>>

nonancestryvars == <<addrvars, syncvars, updvars, ccvars, runvars, cachevars>>

InitAncestry == TxInit /\ AncestryInit /\ AddrIdle /\ SyncIdle /\ UpdIdle /\ CoinControlIdle /\ RunIdle /\ CacheIdle

NextAncestry == DoGetAncestry /\ UNCHANGED nonancestryvars

SpecAncestry == InitAncestry /\ [][NextAncestry]_vars

\* the transactions that created the coins of S
CreatorsOf(txs, S) == {i \in 1..Len(txs) : \E c \in S : c.txid = txs[i].txid}

\* the owned coins the creators of the coins of S consume as inputs
OwnedParents(cs, txs, S) ==
  {cs[id] : id \in {k \in DOMAIN cs : \E i \in CreatorsOf(txs, S) : HasInput(txs[i], k)}}

\* generation k of a coin: the coin itself, then the owned parents of the
\* generation before
RECURSIVE Generation(_, _, _, _)
Generation(cs, txs, coin, k) ==
  IF k = 0 THEN {coin} ELSE OwnedParents(cs, txs, Generation(cs, txs, coin, k - 1))

\* the coins of a level
CoinsOfLevel(level) == {level[i] : i \in 1..Len(level)}

\* GetAncestry was asked for a coin of the wallet
AskedOwnedCoin ==
  ancestry.called /\ CoinId(ancestry.tx_id, ancestry.vout) \in DOMAIN coins

ADDRESS_LOOK_AHEAD == 20

\* wallet.get_gap_limit()
GapLimit == 20

\* NewAddress is not called on a branch whose current index reached MaxIndex
MaxIndex == 1

\* the addresses the backend may report a status for
ActivityCandidates == {<<FALSE, 0>>, <<FALSE, GapLimit - 1>>}

\* the addresses the stored transactions may pay
PayCandidates == {<<FALSE, 1>>}

\* the status the backend reports for a used address
BackendStatus == "s1"

EscrowAddress == <<FALSE, 0 - 1>>

\* CoreUtils::DeriveAddress(descriptor, index)
DeriveAddress(internal, index) ==
  IF is_escrow THEN EscrowAddress ELSE <<internal, index>>

AddressData(a, index, internal, used) ==
  [address |-> a, index |-> index, internal |-> internal, used |-> used]

\* the UTXO column: join({utxo.dump(), status}, '|'), the empty string is <<>>
UtxoStatus(status) == <<"null", status>>

\* split(UTXO, '|')[1], "" if there is no second part
StatusOfUtxo(utxo) == IF Len(utxo) > 1 THEN utxo[2] ELSE ""

HasAddress(tbl, a) == \E r \in tbl : r.addr = a

\* GetCurrentAddressIndex: SELECT MAX(IDX) FROM ADDRESS WHERE INTERNAL = ?
GetCurrentAddressIndex(tbl, internal) ==
  LET rows == {r \in tbl : r.internal = internal}
  IN IF rows = {} THEN 0 - 1
     ELSE (CHOOSE r \in rows : \A q \in rows : q.idx <= r.idx).idx

\* GetAddressStatus: SELECT UTXO FROM ADDRESS WHERE ADDR = ?
GetAddressStatus(tbl, a) ==
  IF HasAddress(tbl, a)
  THEN StatusOfUtxo((CHOOSE r \in tbl : r.addr = a).utxo) ELSE ""

\* SetAddress: INSERT ... ON CONFLICT(ADDR) DO UPDATE SET USED, UTXO
SetAddress(tbl, a, index, internal, utxos) ==
  IF HasAddress(tbl, a)
  THEN {IF r.addr = a THEN [r EXCEPT !.used = (utxos # <<>>), !.utxo = utxos]
        ELSE r : r \in tbl}
  ELSE tbl \cup {[addr |-> a, idx |-> index, internal |-> internal,
                  used |-> (utxos # <<>>), utxo |-> utxos]}

\* CoreUtils::DeriveAddresses(descriptor, from, to), both ends included
DeriveAddresses(internal, from, to) == {<<internal, i>> : i \in from..to}

\* the map GetAllAddressData builds when there is no cached one
DerivedMap(tbl) ==
  IF is_escrow THEN {AddressData(EscrowAddress, 0, FALSE, FALSE)}
  ELSE UNION {{AddressData(a, a[2], b, FALSE) :
                 a \in DeriveAddresses(b, 0,
                         GetCurrentAddressIndex(tbl, b) + ADDRESS_LOOK_AHEAD)} :
              b \in BOOLEAN}

\* the addresses of a map
AddressesOf(map) == {e.address : e \in map}

EntryOf(map, a) == CHOOSE e \in map : e.address = a

\* UseAddress for every output of every stored transaction
UseAddresses(map, outputs) ==
  {IF e.address \in outputs THEN [e EXCEPT !.used = TRUE] ELSE e : e \in map}

\* GetAllAddressData: the cached map if there is one; otherwise the derived
\* map is answered, and stored in the cache with the used flags set
GetAllAddressData(st) ==
  IF st.cache.present THEN [result |-> st.cache.map, st |-> st]
  ELSE [result |-> DerivedMap(st.address),
        st |-> [st EXCEPT !.cache =
                  [present |-> TRUE,
                   map |-> UseAddresses(DerivedMap(st.address), st.paid)]]]

IsMyAddressIn(st, a) == a \in AddressesOf(GetAllAddressData(st).result)

\* AddAddress
AddAddress(st, a, index, internal) ==
  LET s1 == [st EXCEPT !.address = SetAddress(st.address, a, index, internal, <<>>)]
      s2 == GetAllAddressData(s1).st
  IN IF ~IsMyAddressIn(s1, a)
     THEN [s2 EXCEPT !.cache.map = {e \in @ : e.address # a}
                       \cup {AddressData(a, index, internal, FALSE)}]
     ELSE s2

\* SetUtxos
SetUtxos(st, a, utxo) ==
  LET all == GetAllAddressData(st)
  IN IF a \notin AddressesOf(all.result) THEN all.st
     ELSE [all.st EXCEPT !.address =
             SetAddress(st.address, a, EntryOf(all.result, a).index,
                        EntryOf(all.result, a).internal, utxo)]

\* ForceRefresh
ForceRefresh(st) == [address |-> {}, cache |-> NoCache, paid |-> {}]

\* blockchain_scripthash_subscribe: the status of the address on the backend
Subscribe(a) == IF a \in active THEN BackendStatus ELSE ""

\* UpdateScripthashStatus / UpdateScripthashesStatus for one address; synced
\* is what UpdateTransactions answers, the transactions of the history are
\* stored then
UpdateScripthashStatus(st, a, status, synced) ==
  IF status = "" \/ ~synced THEN st
  ELSE SetUtxos([st EXCEPT !.paid = @ \cup {a}], a, UtxoStatus(status))

\* LookAhead
LookAhead(st, a, index, internal, synced) ==
  LET sub == Subscribe(a)
      prev_status == GetAddressStatus(st.address, a)
  IN IF ~online THEN [found |-> FALSE, st |-> st]
     ELSE IF sub = "" /\ prev_status = "" THEN [found |-> FALSE, st |-> st]
     ELSE IF sub # prev_status
     THEN [found |-> TRUE,
           st |-> UpdateScripthashStatus(AddAddress(st, a, index, internal),
                                         a, sub, synced)]
     ELSE [found |-> TRUE, st |-> st]

\* SupportBatchLookAhead
SupportBatchLookAhead == online /\ batch

\* the position (from 0) of the first occurrence of a in addrs
PositionOf(addrs, a) ==
  (CHOOSE i \in 1..Len(addrs) :
     addrs[i] = a /\ \A j \in 1..(i - 1) : addrs[j] # a) - 1

InSeq(addrs, a) == \E i \in 1..Len(addrs) : addrs[i] = a

\* BatchLookAhead, the loop over multisub: subs is the order in which the
\* subscriptions that carry or had a status come; scan is the record
\* [st, lastUsedIdx, scripthashes]
RECURSIVE BatchScan(_, _, _, _, _, _)
BatchScan(scan, addrs, indexes, internal, subs, k) ==
  IF k > Len(subs) THEN scan
  ELSE LET a == subs[k]
           i == PositionOf(addrs, a)
           sub == Subscribe(a)
           prev_status == GetAddressStatus(scan.st.address, a)
       IN IF ~InSeq(addrs, a) \/ (sub = "" /\ prev_status = "") \/ sub = prev_status
          THEN BatchScan(scan, addrs, indexes, internal, subs, k + 1)
          ELSE BatchScan(
                 [st |-> AddAddress(scan.st, a, indexes[i + 1], internal),
                  lastUsedIdx |-> IF sub # "" /\ i > scan.lastUsedIdx
                                  THEN i ELSE scan.lastUsedIdx,
                  scripthashes |-> IF sub # "" THEN Append(scan.scripthashes, a)
                                   ELSE scan.scripthashes],
                 addrs, indexes, internal, subs, k + 1)

\* UpdateScripthashesStatus
RECURSIVE UpdateScripthashesStatus(_, _, _, _)
UpdateScripthashesStatus(st, scripthashes, synced, k) ==
  IF k > Len(scripthashes) THEN st
  ELSE UpdateScripthashesStatus(
         UpdateScripthashStatus(st, scripthashes[k], Subscribe(scripthashes[k]),
                                synced),
         scripthashes, synced, k + 1)

\* BatchLookAhead: the last position of the window with a new status, -1 if
\* there is none or the synchronizer is not connected
BatchLookAhead(st, addrs, indexes, internal, synced, subs) ==
  IF ~online THEN [last |-> 0 - 1, st |-> st]
  ELSE LET scan == BatchScan([st |-> st, lastUsedIdx |-> 0 - 1,
                              scripthashes |-> <<>>],
                             addrs, indexes, internal, subs, 1)
       IN [last |-> scan.lastUsedIdx,
           st |-> UpdateScripthashesStatus(scan.st, scan.scripthashes, synced, 1)]

\* a variant that starts at the current index
FirstAtCurrent(tbl, internal) == GetCurrentAddressIndex(tbl, internal)

\* NewAddress: the first index it tries
FirstCandidate(tbl, internal) ==
  IF is_escrow THEN 0 - 1 ELSE GetCurrentAddressIndex(tbl, internal) + 1

\* what NewAddress answers: the index registered and the store after it
Registered(st, internal, index) ==
  [returned |-> TRUE, index |-> index,
   st |-> AddAddress(st, DeriveAddress(internal, index), index, internal)]

\* NewAddress, the batch loop: windows of GapLimit addresses from index on
RECURSIVE NewAddressBatch(_, _, _, _, _)
NewAddressBatch(st, internal, index, synced, subs) ==
  LET addrs == [i \in 1..GapLimit |-> DeriveAddress(internal, index + i - 1)]
      indexes == [i \in 1..GapLimit |-> index + i - 1]
      r == BatchLookAhead(st, addrs, indexes, internal, synced, subs)
  IN IF r.last < GapLimit - 1
     THEN Registered(r.st, internal, index + r.last + 1)
     ELSE NewAddressBatch(r.st, internal, index + GapLimit, synced, subs)

\* NewAddress, the sequential loop.  The address of an escrow wallet is the
\* same at every index: once LookAhead finds it used, it finds it used at
\* every later index and the loop does not end.
RECURSIVE NewAddressSequential(_, _, _, _)
NewAddressSequential(st, internal, index, synced) ==
  LET r == LookAhead(st, DeriveAddress(internal, index), index, internal, synced)
  IN IF ~r.found THEN Registered(r.st, internal, index)
     ELSE IF is_escrow THEN [returned |-> FALSE, index |-> index, st |-> r.st]
     ELSE NewAddressSequential(r.st, internal, index + 1, synced)

\* Synchronizer::NewAddress
NewAddress(st, internal, synced, subs) ==
  IF SupportBatchLookAhead
  THEN NewAddressBatch(st, internal, FirstCandidate(st.address, internal),
                       synced, subs)
  ELSE NewAddressSequential(st, internal, FirstCandidate(st.address, internal),
                            synced)

(***************************************************************************)
(* SpecAddr: one wallet, its backend and the calls on its addresses.       *)
(***************************************************************************)
Store == [address |-> addr_table, cache |-> addr_cache, paid |-> paid]

\* the store becomes st
StoreBecomes(st) ==
  /\ addr_table' = st.address
  /\ addr_cache' = st.cache
  /\ paid' = st.paid

AddrInit ==
  /\ is_escrow \in BOOLEAN
  /\ batch \in BOOLEAN
  /\ online \in BOOLEAN
  /\ addr_table = {} /\ addr_cache = NoCache /\ paid = {}
  /\ active = {}
  /\ newaddr = NoNewAddress

\* a read of the address map (GetAllAddresses, IsMyAddress, GetWallet, ...)
DoGetAllAddressData ==
  /\ StoreBecomes(GetAllAddressData(Store).st)
  /\ UNCHANGED <<is_escrow, active, online, batch, newaddr>>

\* NewAddress(internal): the subscriptions of a batch come in any order
DoNewAddress ==
  \E internal \in BOOLEAN, synced \in BOOLEAN,
     subs \in Orderings(IF is_escrow THEN {EscrowAddress} ELSE active) :
    /\ GetCurrentAddressIndex(addr_table, internal) < MaxIndex
    /\ LET r == NewAddress(Store, internal, synced, subs)
       IN /\ StoreBecomes(r.st)
          /\ newaddr' = [called |-> TRUE, internal |-> internal,
                         batched |-> SupportBatchLookAhead,
                         current |-> GetCurrentAddressIndex(addr_table, internal),
                         index |-> r.index, returned |-> r.returned]
    /\ UNCHANGED <<is_escrow, active, online, batch>>

\* OnScripthashStatusChange: the backend notifies the status of an address
DoUpdateScripthashStatus ==
  \E a \in active, synced \in BOOLEAN :
    /\ online
    /\ StoreBecomes(UpdateScripthashStatus(Store, a, Subscribe(a), synced))
    /\ UNCHANGED <<is_escrow, active, online, batch, newaddr>>

\* a transaction paying an address is stored (InsertTransaction, CreatePsbt)
DoStoreTransaction ==
  \E a \in PayCandidates \cup {EscrowAddress} :
    /\ a \notin paid
    /\ a = EscrowAddress <=> is_escrow
    /\ paid' = paid \cup {a}
    /\ UNCHANGED <<is_escrow, addr_table, addr_cache, active, online, batch,
                   newaddr>>

DoForceRefresh ==
  /\ addr_table # {}
  /\ StoreBecomes(ForceRefresh(Store))
  /\ UNCHANGED <<is_escrow, active, online, batch, newaddr>>

\* an address receives its first transaction on the chain
DoBackendActivity ==
  \E a \in ActivityCandidates \cup {EscrowAddress} :
    /\ a \notin active
    /\ a = EscrowAddress <=> is_escrow
    /\ active' = active \cup {a}
    /\ UNCHANGED <<is_escrow, addr_table, addr_cache, paid, online, batch,
                   newaddr>>

\* the connection is established or lost
DoConnection ==
  /\ online' = ~online
  /\ UNCHANGED <<is_escrow, addr_table, addr_cache, paid, active, batch,
                 newaddr>>

\* the variables the address operations leave alone
nonaddrvars == <<txvars, coinvars, syncvars, updvars, ccvars, runvars, cachevars, ancestryvars>>

InitAddr == TxInit /\ CoinsIdle /\ AddrInit /\ SyncIdle /\ UpdIdle /\ CoinControlIdle /\ RunIdle /\ CacheIdle /\ AncestryIdle

NextAddr ==
  \/ DoGetAllAddressData /\ UNCHANGED nonaddrvars
  \/ DoNewAddress /\ UNCHANGED nonaddrvars
  \/ DoUpdateScripthashStatus /\ UNCHANGED nonaddrvars
  \/ DoStoreTransaction /\ UNCHANGED nonaddrvars
  \/ DoForceRefresh /\ UNCHANGED nonaddrvars
  \/ DoBackendActivity /\ UNCHANGED nonaddrvars
  \/ DoConnection /\ UNCHANGED nonaddrvars

SpecAddr == InitAddr /\ [][NextAddr]_vars

(***************************************************************************)
(* Claims about the addresses.                                             *)
(***************************************************************************)
\* the rows of a branch whose USED column is set
UsedRows(internal) == {r \in addr_table : r.internal = internal /\ r.used}

\* the map holds the index of the branch
HoldsIndex(map, internal, i) ==
  \E e \in map : e.internal = internal /\ e.index = i

\* C4: gap-limit invariant: in every reachable state GetAllAddressData()
\* contains, for the internal and for the external branch, every index from
\* 0 to (highest used index of the branch) + 20.
C4_GapLimitInvariant ==
  ~is_escrow =>
    \A internal \in BOOLEAN : \A r \in UsedRows(internal) :
      \A i \in 0..(r.idx + ADDRESS_LOOK_AHEAD) :
        HoldsIndex(GetAllAddressData(Store).result, internal, i)

\* a NewAddress call that answers, made while the backend reports no status
\* for any address of the wallet
QuietNewAddress == newaddr' # newaddr /\ newaddr'.called /\ active = {}

\* the call registered the index after the current one
RegistersNext ==
  /\ newaddr'.returned
  /\ newaddr'.index = GetCurrentAddressIndex(addr_table, newaddr'.internal) + 1
  /\ newaddr'.index = newaddr'.current + 1
  /\ \E r \in addr_table' :
       /\ r.addr = DeriveAddress(newaddr'.internal, newaddr'.index)
       /\ r.idx = newaddr'.index /\ r.internal = newaddr'.internal
  /\ GetCurrentAddressIndex(addr_table', newaddr'.internal) = newaddr'.index

\* C7 as stated: every NewAddress call on a wallet without backend activity
\* registers GetCurrentAddressIndex + 1, so successive calls on a branch
\* give consecutive indices (0, then 1, from an empty wallet), on the batch
\* and on the sequential path.
C7_ConsecutiveIndices == [][QuietNewAddress => RegistersNext]_vars

\* C7, for wallets that are not escrow wallets: every NewAddress call on a
\* wallet without backend activity registers GetCurrentAddressIndex + 1, so
\* successive calls on a branch give consecutive indices (0, then 1, from
\* an empty wallet), on the batch and on the sequential path.
C7_ConsecutiveIndicesHD ==
  [][(QuietNewAddress /\ ~is_escrow) => RegistersNext]_vars

\* the second call on the external branch, on the batch path: index 1
C7_Witness ==
  /\ ~is_escrow /\ active = {}
  /\ newaddr.called /\ newaddr.returned /\ newaddr.batched
  /\ ~newaddr.internal /\ newaddr.current = 0 /\ newaddr.index = 1
  /\ \E r \in addr_table : r.addr = <<FALSE, 1>> /\ r.idx = 1
  /\ \E r \in addr_table : r.addr = <<FALSE, 0>> /\ r.idx = 0

\* the addresses marked used: USED = 1 with a stored subscription status in
\* the table, used = true in the cache
UsedInTable(tbl) == {r.addr : r \in {q \in tbl : q.used /\ StatusOfUtxo(q.utxo) # ""}}

UsedInCache(cache) ==
  IF cache.present THEN {e.address : e \in {x \in cache.map : x.used}} ELSE {}

\* C21: the used flag of an address is monotone: an address marked used in
\* the ADDRESS table (USED = 1 with a stored status) or in the address cache
\* is still marked used there after every operation other than ForceRefresh
\* (NewAddress with its lookahead and its AddAddress, SetUtxos, the reads).
C21_UsedMonotone ==
  [][DoForceRefresh \/ (/\ UsedInTable(addr_table) \subseteq UsedInTable(addr_table')
                        /\ UsedInCache(addr_cache) \subseteq UsedInCache(addr_cache'))]_vars

\* the indices of the branch above index cur that have a status on the backend
ActiveAbove(internal, cur) ==
  {a[2] : a \in {x \in active : x[1] = internal /\ x[2] > cur}}

\* between cur and the active indices above it, fewer than GapLimit
\* indices in a row are without activity
GapsBelowLimit(cur, S) ==
  \A i \in S : \E j \in S \cup {cur} : j < i /\ i - j - 1 < GapLimit

MaxOf(S) == CHOOSE i \in S : \A j \in S : j <= i

\* a NewAddress call on a connected wallet that is not an escrow wallet, made
\* while the backend shows activity above the current index of the branch
NewAddressOverActivity ==
  /\ newaddr' # newaddr /\ newaddr'.called
  /\ online /\ ~is_escrow
  /\ ActiveAbove(newaddr'.internal, newaddr'.current) # {}
  /\ GapsBelowLimit(newaddr'.current,
                    ActiveAbove(newaddr'.internal, newaddr'.current))

\* C31: when the backend shows activity at a set S of indices above the
\* current index, every gap being smaller than the gap limit, NewAddress
\* returns index max(S) + 1, on the batch path and on the sequential path.
C31_PastActivity ==
  [][NewAddressOverActivity =>
       /\ newaddr'.returned
       /\ newaddr'.index =
            MaxOf(ActiveAbove(newaddr'.internal, newaddr'.current)) + 1]_vars

\* C39: NewAddress terminates: every call answers an address, on the batch
\* and on the sequential path, for ordinary and for escrow wallets, connected
\* or not (the backend's activity is always on finitely many indices here).
C39_NewAddressReturns == newaddr.called => newaddr.returned

\* C40: the address cache is transparent: a second GetAllAddressData, made
\* right after a first one with no write in between, answers the same map
\* (addresses, indices, internal and used flags), whether the first one was
\* answered by a derivation or from the cache.
C40_CacheTransparent ==
  LET first == GetAllAddressData(Store)
  IN GetAllAddressData(first.st).result = first.result

(***************************************************************************)
(* SpecCache: the rows of one store file, addr_cache_ and signer_cache_     *)
(* under the calls that change the rows and the calls that read them.      *)
(***************************************************************************)
\* the signers a wallet is created with
Signers == {"xpubA", "xpubB"}

\* AddSigner: INSERT INTO SIGNER
AddSigner(tbl, signer) == tbl \cup {signer}

\* GetSigners: the cached signers if there are any, otherwise the rows of
\* SIGNER, which are cached then
GetSigners(tbl, cache) ==
  IF cache.present THEN [result |-> cache.signers, cache |-> cache]
  ELSE [result |-> tbl, cache |-> [present |-> TRUE, signers |-> tbl]]

\* DeleteWallet: DROP TABLE SIGNER, ADDRESS, VTX and the key-value table
DeleteWallet(st) == [st EXCEPT !.address = {}, !.paid = {}]

\* a cached entry that was there before the call is as old as it was
StillOlder(which, present) ==
  [cached_before EXCEPT ![which] = present /\ @]

CacheAddSigner ==
  \E signer \in Signers \ signer_table :
    /\ signer_table' = AddSigner(signer_table, signer)
    /\ UNCHANGED <<addrvars, signer_cache, cached_before, cache_read>>

CacheGetSigners ==
  /\ signer_cache' = GetSigners(signer_table, signer_cache).cache
  /\ cache_read' = [op |-> "GetSigners", hit |-> signer_cache.present,
                    older |-> signer_cache.present /\ cached_before.signer]
  /\ cached_before' = StillOlder("signer", signer_cache.present)
  /\ UNCHANGED <<addrvars, signer_table>>

CacheGetAllAddressData ==
  /\ StoreBecomes(GetAllAddressData(Store).st)
  /\ cache_read' = [op |-> "GetAllAddressData", hit |-> addr_cache.present,
                    older |-> addr_cache.present /\ cached_before.address]
  /\ cached_before' = StillOlder("address", addr_cache.present)
  /\ UNCHANGED <<is_escrow, active, online, batch, newaddr, signer_table,
                 signer_cache>>

\* AddAddress of the next index of a branch, as NewAddress does
CacheAddAddress ==
  \E internal \in BOOLEAN :
    LET index == GetCurrentAddressIndex(addr_table, internal) + 1
    IN /\ index <= MaxIndex
       /\ StoreBecomes(AddAddress(Store, DeriveAddress(internal, index), index,
                                  internal))
       /\ cached_before' = StillOlder("address", addr_cache.present)
       /\ UNCHANGED <<is_escrow, active, online, batch, newaddr, signer_table,
                      signer_cache, cache_read>>

\* SetUtxos of an address of the map
CacheSetUtxos ==
  \E a \in ActivityCandidates :
    /\ StoreBecomes(SetUtxos(Store, a, UtxoStatus(BackendStatus)))
    /\ cached_before' = StillOlder("address", addr_cache.present)
    /\ UNCHANGED <<is_escrow, active, online, batch, newaddr, signer_table,
                   signer_cache, cache_read>>

CacheForceRefresh ==
  /\ addr_table # {} \/ addr_cache.present
  /\ StoreBecomes(ForceRefresh(Store))
  /\ cached_before' = [cached_before EXCEPT !.address = FALSE]
  /\ UNCHANGED <<is_escrow, active, online, batch, newaddr, signer_table,
                 signer_cache, cache_read>>

CacheDeleteWallet ==
  /\ addr_table # {} \/ signer_table # {}
  /\ StoreBecomes(DeleteWallet(Store))
  /\ signer_table' = {}
  /\ cached_before' = [address |-> addr_cache.present,
                       signer |-> signer_cache.present]
  /\ UNCHANGED <<is_escrow, active, online, batch, newaddr, signer_cache,
                 cache_read>>

noncachevars == <<txvars, coinvars, syncvars, updvars, ccvars, runvars, ancestryvars>>

InitCache == Init

NextCache ==
  \/ CacheAddSigner /\ UNCHANGED noncachevars
  \/ CacheGetSigners /\ UNCHANGED noncachevars
  \/ CacheGetAllAddressData /\ UNCHANGED noncachevars
  \/ CacheAddAddress /\ UNCHANGED noncachevars
  \/ CacheSetUtxos /\ UNCHANGED noncachevars
  \/ CacheForceRefresh /\ UNCHANGED noncachevars
  \/ CacheDeleteWallet /\ UNCHANGED noncachevars

SpecCache == InitCache /\ [][NextCache]_vars

\* C34: cache coherence: after every operation that changes the rows
\* (AddAddress, SetUtxos, AddSigner, ForceRefresh, DeleteWallet) the address
\* cache and the signer cache of the file are absent or equal to what a
\* fresh derivation from the store gives, and no read after DeleteWallet or
\* ForceRefresh is answered from an entry cached before it.
C34_CacheCoherence ==
  /\ addr_cache.present =>
       addr_cache.map = UseAddresses(DerivedMap(addr_table), paid)
  /\ signer_cache.present => signer_cache.signers = signer_table
  /\ ~cache_read.older

(***************************************************************************)
(* The Electrum synchronizer: its status, the task Run() posts on the io   *)
(* thread, and the user calls that need the connection.                    *)
(***************************************************************************)
\* the number of user calls of a behaviour
MaxCalls == 3

\* what the backend may answer to blockchain.relayfee / estimatefee
BackendFees == {1000, 2000}

\* the fee RelayFee answers when it is not connected
DefaultRelayFee == 1000

UserCalls == {"Broadcast", "EstimateFee", "RelayFee", "GetTransaction", "ListUnspent"}

\* a variant that takes a synchronizer that is connecting for a connected one
NotStopped(status) == status \in {"READY", "SYNCING", "CONNECTING"}

\* the negation of the test every user call starts with:
\* status_ != Status::READY && status_ != Status::SYNCING
Connected(status) == status \in {"READY", "SYNCING"}

\* the answer of a user call that does not reach the backend
Disconnected(op) ==
  IF op = "RelayFee" THEN [err |-> "none", value |-> DefaultRelayFee]
  ELSE [err |-> "Disconnected", value |-> 0]

\* the answers the backend may give to the request of a user call
BackendAnswers(op) ==
  {[err |-> "ServerError", value |-> 0]}
    \cup (IF op \in {"RelayFee", "EstimateFee"}
          THEN {[err |-> "none", value |-> v] : v \in BackendFees}
          ELSE {[err |-> "none", value |-> 0]})

\* a variant of the condition variable that loses the notification
NoNotify(w) == w

\* status_cv_.notify_all(): a thread blocked in the wait is made runnable
Notify(w) == IF w.pc = "blocked" THEN [w EXCEPT !.pc = "woken"] ELSE w

\* a variant in which an exception of BlockchainSync ends the task
SkipsAfterThrow(status, threw) ==
  IF ~threw /\ status = "SYNCING" THEN "READY" ELSE status

\* the end of the task, reached whether BlockchainSync returned or threw:
\* if (status_ != Status::SYNCING) return; status_ = Status::READY;
AfterSync(status, threw) == IF status = "SYNCING" THEN "READY" ELSE status

\* Run(): returns when stopped, otherwise CONNECTING and the task is posted
Run ==
  /\ sync_pc \in {"idle", "lost"}
  /\ IF status_ = "STOPPED"
     THEN status_' = status_ /\ sync_pc' = "done" /\ waiter' = waiter
     ELSE /\ status_' = "CONNECTING"
          /\ sync_pc' = "connect"
          /\ waiter' = Notify(waiter)
  /\ UNCHANGED <<requests, call, sync_threw>>

\* the task: the client cannot be constructed
ConnectFails ==
  /\ sync_pc = "connect"
  /\ status_' = "UNINITIALIZED"
  /\ sync_pc' = "failed"
  /\ waiter' = Notify(waiter)
  /\ UNCHANGED <<requests, call, sync_threw>>

\* the task: the client is constructed; SYNCING unless the status changed
ConnectSucceeds ==
  /\ sync_pc = "connect"
  /\ IF status_ = "CONNECTING"
     THEN status_' = "SYNCING" /\ sync_pc' = "sync" /\ waiter' = Notify(waiter)
     ELSE status_' = status_ /\ sync_pc' = "done" /\ waiter' = waiter
  /\ UNCHANGED <<requests, call, sync_threw>>

\* the task: BlockchainSync returned or threw; READY unless the status changed
SyncEnds ==
  \E threw \in BOOLEAN :
    /\ sync_pc \in {"sync", "sync_lost"}
    /\ sync_threw' = threw
    /\ status_' = AfterSync(status_, threw)
    /\ sync_pc' = (IF sync_pc = "sync" THEN "done" ELSE "lost")
    /\ waiter' = (IF status_' # status_ THEN Notify(waiter) ELSE waiter)
    /\ UNCHANGED <<requests, call>>

\* the client reports the connection lost: sleep and Run() are posted behind
\* the task the io thread is running
ConnectionLost ==
  /\ sync_pc \in {"sync", "done"}
  /\ status_ # "STOPPED"
  /\ sync_pc' = (IF sync_pc = "sync" THEN "sync_lost" ELSE "lost")
  /\ UNCHANGED <<status_, requests, call, waiter, sync_threw>>

\* the destructor
Stop ==
  /\ status_ # "STOPPED"
  /\ status_' = "STOPPED"
  /\ waiter' = Notify(waiter)
  /\ UNCHANGED <<sync_pc, requests, call, sync_threw>>

\* WaitForReady(): the predicate is tested first; the thread blocks if it fails
WaitForReady ==
  /\ waiter.pc \in {"none", "returned"}
  /\ waiter' = IF Connected(status_)
               THEN [pc |-> "returned", slept |-> FALSE]
               ELSE [pc |-> "blocked", slept |-> TRUE]
  /\ UNCHANGED <<status_, sync_pc, requests, call, sync_threw>>

\* the notified thread takes the lock and tests the predicate again
WaiterWakes ==
  /\ waiter.pc = "woken"
  /\ waiter' = [waiter EXCEPT !.pc = IF Connected(status_) THEN "returned"
                                     ELSE "blocked"]
  /\ UNCHANGED <<status_, sync_pc, requests, call, sync_threw>>

\* a condition variable may wake a thread that nobody notified
SpuriousWakeup ==
  /\ waiter.pc = "blocked"
  /\ waiter' = [waiter EXCEPT !.pc = "woken"]
  /\ UNCHANGED <<status_, sync_pc, requests, call, sync_threw>>

\* Broadcast, EstimateFee, RelayFee, GetTransaction, ListUnspent
DoUserCall ==
  \E op \in UserCalls :
    /\ call.seq < MaxCalls
    /\ \/ /\ ~Connected(status_)
          /\ call' = [seq |-> call.seq + 1, op |-> op,
                      err |-> Disconnected(op).err,
                      value |-> Disconnected(op).value]
          /\ requests' = requests
       \/ /\ Connected(status_)
          /\ requests' = requests + 1
          /\ \E answer \in BackendAnswers(op) :
               call' = [seq |-> call.seq + 1, op |-> op, err |-> answer.err,
                        value |-> answer.value]
    /\ UNCHANGED <<status_, sync_pc, waiter, sync_threw>>

\* the variables the synchronizer leaves alone
nonsyncvars == <<txvars, coinvars, addrvars, updvars, ccvars, runvars, cachevars, ancestryvars>>

InitSync == TxInit /\ CoinsIdle /\ AddrIdle /\ SyncIdle /\ UpdIdle /\ CoinControlIdle /\ RunIdle /\ CacheIdle /\ AncestryIdle

NextSync ==
  \/ Run /\ UNCHANGED nonsyncvars
  \/ ConnectFails /\ UNCHANGED nonsyncvars
  \/ ConnectSucceeds /\ UNCHANGED nonsyncvars
  \/ SyncEnds /\ UNCHANGED nonsyncvars
  \/ ConnectionLost /\ UNCHANGED nonsyncvars
  \/ Stop /\ UNCHANGED nonsyncvars
  \/ DoUserCall /\ UNCHANGED nonsyncvars
  \/ WaitForReady /\ UNCHANGED nonsyncvars
  \/ WaiterWakes /\ UNCHANGED nonsyncvars
  \/ SpuriousWakeup /\ UNCHANGED nonsyncvars

SpecSync == InitSync /\ [][NextSync]_vars

\* the io thread runs the task it was given, and the Run() the reconnect
\* callback posted, to their end
IoThread ==
  \/ sync_pc = "lost" /\ Run
  \/ ConnectFails
  \/ ConnectSucceeds
  \/ SyncEnds

\* SpecSync with its threads scheduled: the io thread and the thread woken
\* inside WaitForReady are not starved
SpecSyncLive ==
  /\ SpecSync
  /\ WF_vars(IoThread /\ UNCHANGED nonsyncvars)
  /\ WF_vars(WaiterWakes /\ UNCHANGED nonsyncvars)

\* a user call made while the status is neither READY nor SYNCING
DisconnectedCall ==
  call'.seq = call.seq + 1 /\ status_ \notin {"READY", "SYNCING"}

\* C10: when the status is neither READY nor SYNCING, Broadcast, EstimateFee,
\* GetTransaction and ListUnspent fail with "Disconnected" and RelayFee
\* answers 1000, and none of them sends a request to the backend.
C10_DisconnectedCalls ==
  [][DisconnectedCall =>
       /\ requests' = requests
       /\ call'.op # "RelayFee" => call'.err = "Disconnected"
       /\ call'.op = "RelayFee" => (call'.err = "none" /\ call'.value = 1000)]_vars

\* the connection was lost after a request went through, the reconnection
\* failed, and Broadcast then answered "Disconnected"
C10_Witness ==
  /\ status_ = "UNINITIALIZED" /\ requests = 1
  /\ call.seq = 2 /\ call.op = "Broadcast" /\ call.err = "Disconnected"

\* WaitForReady returns in this step
WaitReturns == waiter' # waiter /\ waiter'.pc = "returned"

\* a thread is inside WaitForReady
Waiting == waiter.pc \in {"blocked", "woken"}

\* WaitForReady returns only while the status is READY or SYNCING
C11_ReturnsOnlyReady ==
  [][WaitReturns => (status_ \in {"READY", "SYNCING"} /\ status_' = status_)]_vars

\* C11 as stated: WaitForReady returns only in a state where the status is
\* READY or SYNCING, and it does return whenever the status becomes READY or
\* SYNCING.
C11_WaitForReady ==
  /\ C11_ReturnsOnlyReady
  /\ (Waiting /\ status_ \in {"READY", "SYNCING"}) ~> (waiter.pc = "returned")

\* C11, amended: WaitForReady returns only in a state where the status is
\* READY or SYNCING; once the status is READY or SYNCING the waiter has been
\* woken, and it returns unless the status has left READY and SYNCING before
\* the woken thread tests it again.
C11_WaitForReadyWoken ==
  /\ C11_ReturnsOnlyReady
  /\ [](Waiting /\ status_ \in {"READY", "SYNCING"} => waiter.pc = "woken")
  /\ (Waiting /\ status_ \in {"READY", "SYNCING"})
       ~> (waiter.pc = "returned" \/ status_ \notin {"READY", "SYNCING"})

\* a thread that had to block inside WaitForReady has returned, and the sync
\* pass is over
C11_Witness ==
  /\ waiter.pc = "returned" /\ waiter.slept
  /\ status_ = "READY" /\ sync_pc = "done"

\* C12: STOPPED is terminal: once the destructor has set the status to
\* STOPPED no later step (a Run, a task already posted) changes it.
C12_StoppedTerminal == [][status_ = "STOPPED" => status_' = "STOPPED"]_vars

\* C13: whenever a connection attempt fails and the synchronizer is not
\* STOPPED, the status eventually returns to CONNECTING.
C13_ConnectRetry ==
  (sync_pc = "failed" /\ status_ = "UNINITIALIZED")
    ~> (status_ = "CONNECTING" \/ status_ = "STOPPED")

\* C14: whether BlockchainSync returns or throws, the task goes on to its
\* end, a status that is still SYNCING becomes READY, and the status is
\* never SYNCING once the sync pass has ended.
C14_SyncPassEnds ==
  /\ [](status_ = "SYNCING" => sync_pc \in {"sync", "sync_lost"})
  /\ [][(sync_pc \in {"sync", "sync_lost"} /\ sync_pc' # sync_pc
          /\ sync_pc' # "sync_lost")
        => /\ sync_pc' \in {"done", "lost"}
           /\ status_ = "SYNCING" => status_' = "READY"
           /\ status_ # "SYNCING" => status_' = status_]_vars

\* BlockchainSync threw and the status went from SYNCING to READY
C14_Witness ==
  sync_threw /\ status_ = "READY" /\ sync_pc = "done" /\ waiter.pc = "none"

(***************************************************************************)
(* UpdateTransactions: the history of an address, as the server reports    *)
(* it, reconciled with the VTX table.  A call is one step; the table it    *)
(* starts from is any table the store operations above can have built.     *)
(***************************************************************************)
\* the longest history of a call
MaxHistory == 2

\* the transactions of the wallet: A pays the wallet, B and C spend its coins
UpdTxs == {"A", "B", "C"}

SendTxs == {"B", "C"}

\* heights a history reports: -1 and 0 in the mempool, > 0 in a block
HistoryHeights == {0 - 1, 2}

\* tx.is_receive(): no input of the transaction spends a coin of the wallet
IsReceive(txid) == txid \notin SendTxs

HistoryEntries == [tx_hash : UpdTxs, height : HistoryHeights]

Histories ==
  {h \in UNION {[1..n -> HistoryEntries] : n \in 0..MaxHistory} :
     \A i, j \in DOMAIN h : i # j => h[i].tx_hash # h[j].tx_hash}

\* what the server fails to deliver: the transactions its batch answer lacks
\* and the transactions blockchain.transaction.get fails for
Outages ==
  {[missing |-> {}, down |-> {}]}
    \cup {[missing |-> {t}, down |-> {}] : t \in UpdTxs}
    \cup {[missing |-> {t}, down |-> {t}] : t \in UpdTxs}

\* rows as the store operations leave them
PendingRow(t) == InsertTransactionRow(RawTx(t), 0, 0, 0, 0, 0 - 1)

ConfirmedRow(t) == InsertTransactionRow(RawTx(t), 1, BlockTimeAt(1), 0, 0, 0 - 1)

PsbtRow(t, replace_tx) ==
  [id |-> t, value |-> Psbt(t, NSigners), height |-> 0 - 1, fee |-> 1,
   memo |-> 1, changepos |-> 1, blocktime |-> 0,
   extra |-> CreatePsbtExtra(1, 1, TRUE, replace_tx)]

\* a row made by CreatePsbt and broadcast by UpdateTransaction(raw, 0, 0)
BroadcastRow(t) ==
  RowOf(UpdateTransactionRaw({PsbtRow(t, "")}, RawTx(t), 0, 0, "").tbl, t)

UpdStores ==
  {a \cup b \cup c :
     a \in {{}, {PendingRow("A")}, {ConfirmedRow("A")}},
     b \in {{}, {PendingRow("B")}, {ConfirmedRow("B")}, {BroadcastRow("B")}},
     c \in {{}, {PsbtRow("C", "")}, {PsbtRow("C", "B")}}}

\* a variant that fetches and stores confirmed transactions again
SkipsNothing(stx) == FALSE

\* if (stx.get_status() == TS::CONFIRMED) continue;
SkipsStored(stx) == stx.found /\ stx.status = "CONFIRMED"

\* storage_->GetTransactions(chain, wallet_id, TS::PENDING_CONFIRMATION, true)
PendingReceive(tbl) ==
  {r.id : r \in {q \in tbl : /\ TxView(q).status = "PENDING_CONFIRMATION"
                            /\ IsReceive(q.id)}}

\* the state of a call before its first history entry
StartOf(tbl) ==
  [tbl |-> tbl, txs_hash |-> {}, stored |-> {}, failed |-> {},
   evicted |-> {}, notified |-> {}, err |-> "none", isSynced |-> TRUE]

\* the end of both loops: UpdateTransaction for a transaction that was found,
\* InsertTransaction otherwise, then the listener when the status is READY
StoreEntry(acc, entry, found, ready) ==
  LET tx_id == entry.tx_hash
      time == BlockTimeAt(entry.height)
      status == IF entry.height <= 0 THEN "PENDING_CONFIRMATION"
                ELSE "CONFIRMED"
      height == IF entry.height <= 0 THEN 0 ELSE entry.height
      r == IF found
           THEN UpdateTransactionRaw(acc.tbl, RawTx(tx_id), height, time, "")
           ELSE [err |-> "none", updated |-> TRUE,
                 tbl |-> SqlUpsertValueHeight(acc.tbl,
                           InsertTransactionRow(RawTx(tx_id), height, time,
                                                0, 0, 0 - 1))]
  IN IF r.err # "none" THEN [acc EXCEPT !.err = r.err]
     ELSE [acc EXCEPT !.tbl = r.tbl,
                      !.stored = @ \cup {tx_id},
                      !.notified = IF ready THEN @ \cup {<<tx_id, status>>}
                                   ELSE @]

\* the loop of the sequential path; blockchain_transaction_get is called
\* outside any try block
RECURSIVE SequentialLoop(_, _, _, _)
SequentialLoop(acc, history, down, ready) ==
  IF history = <<>> \/ acc.err # "none" THEN acc
  ELSE LET entry == Head(history)
           stx == GetTransaction(acc.tbl, entry.tx_hash)
           wanted == [acc EXCEPT !.txs_hash = @ \cup {entry.tx_hash}]
           after == IF SkipsStored(stx) THEN acc
                    ELSE IF entry.tx_hash \in down
                    THEN [wanted EXCEPT !.failed = @ \cup {entry.tx_hash},
                                        !.err = "ServerError"]
                    ELSE StoreEntry(wanted, entry, stx.found, ready)
       IN SequentialLoop(after, Tail(history), down, ready)

\* the first loop of the batch path: the transactions to fetch
TxsHash(tbl, history) ==
  {history[i].tx_hash : i \in {j \in DOMAIN history :
     ~SkipsStored(GetTransaction(tbl, history[j].tx_hash))}}

\* the second loop of the batch path; founds is filled by the first loop
RECURSIVE BatchLoop(_, _, _, _, _, _)
BatchLoop(acc, history, founds, rawtx, down, ready) ==
  IF history = <<>> \/ acc.err # "none" THEN acc
  ELSE LET entry == Head(history)
           tx_id == entry.tx_hash
           after == IF tx_id \notin acc.txs_hash THEN acc
                    ELSE IF tx_id \notin rawtx /\ tx_id \in down
                    THEN [acc EXCEPT !.failed = @ \cup {tx_id},
                                     !.isSynced = FALSE]
                    ELSE StoreEntry(acc, entry, tx_id \in founds, ready)
       IN BatchLoop(after, Tail(history), founds, rawtx, down, ready)

\* a variant that evicts nothing
EvictNothing(acc, kept) == acc

\* every pending receive transaction that is not among the kept ones is
\* deleted and reported as REPLACED
Evict(acc, kept) ==
  IF acc.err # "none" THEN acc
  ELSE LET gone == PendingReceive(acc.tbl) \ kept
       IN [acc EXCEPT !.tbl = {r \in @ : r.id \notin gone},
                      !.evicted = gone,
                      !.notified = @ \cup {<<t, "REPLACED">> : t \in gone}]

\* the sequential path, lines 167-206
Sequential(tbl, history, down, ready) ==
  LET acc == SequentialLoop(StartOf(tbl), history, down, ready)
  IN Evict(acc, acc.txs_hash)

\* the batch path; rawtx is the answer to get_multi_rawtx
Batched(tbl, history, rawtx, down, ready) ==
  LET start == [StartOf(tbl) EXCEPT !.txs_hash = TxsHash(tbl, history)]
      founds == {t \in UpdTxs : HasRow(tbl, t)}
  IN Evict(BatchLoop(start, history, founds, rawtx, down, ready), rawtx)

\* UpdateTransactions(chain, wallet_id, history)
UpdateTransactions(tbl, history, batched, outage, ready) ==
  IF batched
  THEN Batched(tbl, history, TxsHash(tbl, history) \ outage.missing,
               outage.down, ready)
  ELSE Sequential(tbl, history, outage.down, ready)

\* UpdateTransactions(chain, wallet_id, history, rawtx, rawheader)
UpdateTransactionsRaw(tbl, history, batched, rawtx, outage, ready) ==
  IF batched THEN Batched(tbl, history, rawtx, outage.down, ready)
  ELSE UpdateTransactions(tbl, history, batched, outage, ready)

\* what a call leaves in upd
Outcome(overload, batched, is_array, history, r) ==
  [called |-> TRUE, overload |-> overload, batched |-> batched,
   is_array |-> is_array, history |-> history, before |-> vtx,
   after |-> r.tbl, txs_hash |-> r.txs_hash, stored |-> r.stored,
   failed |-> r.failed, evicted |-> r.evicted, notified |-> r.notified,
   err |-> r.err, isSynced |-> r.isSynced]

\* if (!history.is_array()) return false;
NotAnArray == [StartOf(vtx) EXCEPT !.isSynced = FALSE]

DoUpdateTransactions ==
  /\ steps = 0
  /\ \E is_array \in BOOLEAN, batched \in BOOLEAN, ready \in BOOLEAN,
     history \in Histories, outage \in Outages :
    /\ steps' = 1
    /\ is_array \/ (history = <<>> /\ outage.missing = {} /\ ~ready)
    /\ batched \/ outage.missing = outage.down
    /\ LET r == IF is_array
                THEN UpdateTransactions(vtx, history, batched, outage, ready)
                ELSE NotAnArray
       IN /\ vtx' = r.tbl
          /\ upd' = Outcome("history", batched, is_array, history, r)
    /\ UNCHANGED ret

DoUpdateTransactionsRaw ==
  /\ steps = 0
  /\ \E batched \in BOOLEAN, ready \in BOOLEAN, history \in Histories,
     outage \in Outages, others \in {{}, UpdTxs} :
    /\ steps' = 1
    /\ batched \/ (outage.missing = outage.down /\ others = {})
    /\ LET rawtx == (TxsHash(vtx, history) \cup others) \ outage.missing
           r == UpdateTransactionsRaw(vtx, history, batched, rawtx, outage,
                                      ready)
       IN /\ vtx' = r.tbl
          /\ upd' = Outcome("history_rawtx", batched, TRUE, history, r)
    /\ UNCHANGED ret

\* the variables UpdateTransactions leaves alone
nonupdvars == <<coinvars, addrvars, syncvars, ccvars, runvars, cachevars, ancestryvars>>

InitUpd ==
  /\ vtx \in UpdStores /\ ret = NoAnswer /\ steps = 0
  /\ CoinsIdle /\ AddrIdle /\ SyncIdle /\ UpdIdle /\ CoinControlIdle /\ RunIdle /\ CacheIdle /\ AncestryIdle

NextUpd ==
  \/ DoUpdateTransactions /\ UNCHANGED nonupdvars
  \/ DoUpdateTransactionsRaw /\ UNCHANGED nonupdvars

SpecUpd == InitUpd /\ [][NextUpd]_vars

\* the transactions of the history of the last call
HistoryTxs == {upd.history[i].tx_hash : i \in DOMAIN upd.history}

\* the rows that were CONFIRMED when the last call began
ConfirmedBefore == {r \in upd.before : r.height > 0}

\* C15: re-sync never touches confirmed transactions: a transaction that is
\* stored with status CONFIRMED when UpdateTransactions is called (either
\* overload, batch or sequential) is still stored afterwards with the same
\* payload, height and block time, whatever height the history reports.
C15_ConfirmedUntouched ==
  upd.called =>
    \A r \in ConfirmedBefore :
      \E q \in vtx : /\ q.id = r.id /\ q.value = r.value
                     /\ q.height = r.height /\ q.blocktime = r.blocktime

\* the history reported the confirmed transaction A as unconfirmed and B in
\* a block: B was stored, A still has height 1
C15_Witness ==
  /\ upd.called /\ upd.err = "none" /\ "B" \in upd.stored
  /\ ConfirmedRow("A") \in upd.before /\ ConfirmedRow("A") \in vtx
  /\ \E i \in DOMAIN upd.history :
       upd.history[i].tx_hash = "A" /\ upd.history[i].height = 0 - 1

\* the rows that were unconfirmed and receive-type when the last call began
\* and that its history does not name
StaleBefore ==
  {r \in upd.before : /\ r.height = 0 /\ r.extra.replaced_by_txid = <<>>
                      /\ r.id \notin SendTxs /\ r.id \notin HistoryTxs}

C17_FetchFailureTolerated ==
  (upd.called /\ upd.failed # {})
    => /\ upd.err # "ServerError"
       /\ upd.err = "none" =>
            /\ ~upd.isSynced
            /\ \A t \in HistoryTxs \ upd.failed :
                 (\A r \in ConfirmedBefore : r.id # t) => t \in upd.stored

(***************************************************************************)
(* BlockchainSync: one wallet with two addresses whose status changed, on  *)
(* the batch and on the sequential path.  The pass runs while the status   *)
(* is SYNCING, so no transaction listener is called.                       *)
(***************************************************************************)
\* storage_->GetAllAddresses(chain, wallet_id)
SyncAddresses == {"X", "Y"}

\* the orders in which a pass may visit the addresses
Visits == {<<"X", "Y">>, <<"Y", "X">>}

\* the histories the server reports: one per address
AddressHistories ==
  {[X |-> hx, Y |-> hy] : hx \in Histories,
                          hy \in {h \in Histories : Len(h) = 1}}

\* the transactions the server fails to deliver, in a batch answer and in a
\* single fetch alike: none, or the receive transaction
Unserved == {{}, {"A"}}

StartOfPass(tbl) == [tbl |-> tbl, err |-> "none", statuses |-> {}]

\* a variant that persists the new status whatever UpdateTransactions returns
PersistsAlways(pass, a, r) ==
  [tbl |-> r.tbl, err |-> r.err,
   statuses |-> IF r.err = "none" THEN pass.statuses \cup {a}
                ELSE pass.statuses]

\* if (UpdateTransactions(...)) storage_->SetUtxos(..., utxostatus)
AfterAddress(pass, a, r) ==
  [tbl |-> r.tbl, err |-> r.err,
   statuses |-> IF r.err = "none" /\ r.isSynced THEN pass.statuses \cup {a}
                ELSE pass.statuses]

\* the sequential path: SubscribeAddress and UpdateScripthashStatus for one
\* address after the other
RECURSIVE SyncSequential(_, _, _, _)
SyncSequential(pass, byaddr, visit, down) ==
  IF visit = <<>> \/ pass.err # "none" THEN pass
  ELSE SyncSequential(
         AfterAddress(pass, Head(visit),
                      Sequential(pass.tbl, byaddr[Head(visit)], down, FALSE)),
         byaddr, Tail(visit), down)

\* UpdateScripthashesStatus, the second loop: the five-argument
\* UpdateTransactions for one scripthash after the other
RECURSIVE SyncBatchLoop(_, _, _, _, _)
SyncBatchLoop(pass, byaddr, visit, rawtx, down) ==
  IF visit = <<>> \/ pass.err # "none" THEN pass
  ELSE SyncBatchLoop(
         AfterAddress(pass, Head(visit),
                      Batched(pass.tbl, byaddr[Head(visit)], rawtx, down, FALSE)),
         byaddr, Tail(visit), rawtx, down)

\* UpdateScripthashesStatus: get_multi_history, then one get_multi_rawtx for
\* the transactions of all the histories that are not stored as CONFIRMED
SyncBatched(tbl, byaddr, visit, down) ==
  LET txs_hash == UNION {TxsHash(tbl, byaddr[a]) : a \in SyncAddresses}
  IN SyncBatchLoop(StartOfPass(tbl), byaddr, visit, txs_hash \ down, down)

\* BlockchainSync for the wallet
BlockchainSync(tbl, byaddr, visit, batched, down) ==
  IF batched THEN SyncBatched(tbl, byaddr, visit, down)
  ELSE SyncSequential(StartOfPass(tbl), byaddr, visit, down)

DoBlockchainSync ==
  /\ steps = 0
  /\ \E batched \in BOOLEAN, byaddr \in AddressHistories, visit \in Visits,
        down \in Unserved :
       LET r == BlockchainSync(vtx, byaddr, visit, batched, down)
       IN /\ steps' = 1
          /\ vtx' = r.tbl
          /\ upd' = [called |-> TRUE, overload |-> "BlockchainSync",
                     batched |-> batched, histories |-> byaddr,
                     visit |-> visit, down |-> down, before |-> vtx,
                     after |-> r.tbl, statuses |-> r.statuses, err |-> r.err]
  /\ UNCHANGED ret

NextBlockchainSync == DoBlockchainSync /\ UNCHANGED nonupdvars

SpecBlockchainSync == InitUpd /\ [][NextBlockchainSync]_vars

\* what a pass leaves: the stored transactions with their heights and the
\* addresses whose status was persisted
Left(pass) ==
  [txs |-> {<<r.id, r.height>> : r \in pass.tbl}, statuses |-> pass.statuses]

\* the last pass, made on the other path with the same answers of the server
OtherPath(visit) ==
  BlockchainSync(upd.before, upd.histories, visit, ~upd.batched, upd.down)

\* C27: batch and sequential synchronization are equivalent: from the same
\* store and with the same answers of the server, the pass on the other path
\* (visiting the addresses in some order) leaves the same stored
\* transactions with the same heights and the same persisted address
\* statuses as the pass that was made.
C27_BatchEqualsSequential ==
  upd.called =>
    \E visit \in Visits :
      Left(OtherPath(visit)) = Left([tbl |-> vtx, statuses |-> upd.statuses])

\* the server lists the transaction in the history of an address of the wallet
ListedAnywhere(t) ==
  \E a \in SyncAddresses :
    \E i \in DOMAIN upd.histories[a] : upd.histories[a][i].tx_hash = t

\* the transactions of the history of address a that the pass had to fetch
\* and the server did not deliver
NotDelivered(a) ==
  {upd.histories[a][i].tx_hash : i \in DOMAIN upd.histories[a]}
    \cap (upd.down \ {r.id : r \in ConfirmedBefore})

\* C32: the persisted status of an address is overwritten with the
\* backend's new status only when UpdateTransactions for that address
\* returned true: after a pass in which a transaction of the address's
\* history could not be fetched, the status of that address is the old one,
\* so the next pass finds the difference again.
C32_StatusKeptOnFailure ==
  upd.called => \A a \in SyncAddresses :
                  NotDelivered(a) # {} => a \notin upd.statuses

\* the batch path failed to fetch A, which only the history of X lists: the
\* pass ended without an exception, the status of Y was persisted and the
\* status of X was not
C32_Witness ==
  /\ upd.called /\ upd.batched /\ upd.err = "none"
  /\ NotDelivered("X") = {"A"} /\ NotDelivered("Y") = {}
  /\ upd.statuses = {"Y"}

\* C36: a stored pending receive transaction is deleted only if it is absent
\* from the server's current history of every address of the wallet: one that
\* some history lists, that of the address being processed or that of
\* another address, is still stored after the pass.
C36_EvictsOnlyUnlisted ==
  upd.called =>
    \A t \in PendingReceive(upd.before) : ListedAnywhere(t) => HasRow(vtx, t)

(***************************************************************************)
(* Coin control: tags, collections, their join tables and the per-coin     *)
(* memo/lock rows of one wallet, with the export and the import of the     *)
(* whole.  JSON arrays are sets here: no operation depends on their order. *)
(***************************************************************************)
\* the number of coin-control calls of a behaviour
MaxCoinSteps == 5

\* the highest row id CreateCoinTag and CreateCoinCollection hand out
MaxRowId == 2

TagNames == {"n1", "n2"}

CollectionNames == {"k1"}

\* the coins the calls name, CoinId(tx_id, vout)
CoinIds == {CoinId("A", 0), CoinId("B", 0)}

\* the rowid of an INSERT without ID: one more than the highest one
NextRowId(rows) ==
  IF rows = {} THEN 1
  ELSE (CHOOSE r \in rows : \A q \in rows : q.id <= r.id).id + 1

\* {{"add_new_coin", false}, {"auto_lock", false}}
DefaultSettings == [add_new_coin |-> FALSE, auto_lock |-> FALSE]

\* CreateCoinTag, for a name no tag has
CreateCoinTag(db, name, color) ==
  [db EXCEPT !.tags = @ \cup {[id |-> NextRowId(db.tags), name |-> name,
                              color |-> color]}]

\* a variant that deletes the row of the tag and leaves the join table alone
DeleteTagRowOnly(db, tag_id) ==
  [db EXCEPT !.tags = {t \in @ : t.id # tag_id}]

\* DeleteCoinTag: DELETE FROM TAGS WHERE ID = ?; DELETE FROM COINTAGS WHERE
\* TAGID = ?
DeleteCoinTag(db, tag_id) ==
  [db EXCEPT !.tags = {t \in @ : t.id # tag_id},
             !.cointags = {j \in @ : j.tagid # tag_id}]

\* AddToCoinTag: INSERT OR IGNORE INTO COINTAGS(COIN, TAGID)
AddToCoinTag(db, tag_id, coin) ==
  [db EXCEPT !.cointags = @ \cup {[coin |-> coin, tagid |-> tag_id]}]

\* GetCoinByTag: SELECT COIN FROM COINTAGS WHERE TAGID = ?
GetCoinByTag(db, tag_id) ==
  {j.coin : j \in {k \in db.cointags : k.tagid = tag_id}}

\* CreateCoinCollection, for a name no collection has
CreateCoinCollection(db, name) ==
  [db EXCEPT !.collections =
     @ \cup {[id |-> NextRowId(db.collections), name |-> name,
              settings |-> DefaultSettings]}]

\* DeleteCoinCollection
DeleteCoinCollection(db, collection_id) ==
  [db EXCEPT !.collections = {c \in @ : c.id # collection_id},
             !.coincollections = {j \in @ : j.collectionid # collection_id}]

\* AddToCoinCollection: INSERT OR IGNORE INTO COINCOLLECTIONS
AddToCoinCollection(db, collection_id, coin) ==
  [db EXCEPT !.coincollections =
     @ \cup {[coin |-> coin, collectionid |-> collection_id]}]

\* GetCoinInCollection
GetCoinInCollection(db, collection_id) ==
  {j.coin : j \in {k \in db.coincollections : k.collectionid = collection_id}}

HasCoinInfo(db, coin) == \E i \in db.coininfo : i.coin = coin

\* UpdateCoinMemo: INSERT ... ON CONFLICT(COIN) DO UPDATE SET MEMO
UpdateCoinMemo(db, coin, memo) ==
  [db EXCEPT !.coininfo =
     IF HasCoinInfo(db, coin)
     THEN {IF i.coin = coin THEN [i EXCEPT !.memo = memo] ELSE i : i \in @}
     ELSE @ \cup {[coin |-> coin, memo |-> memo, locked |-> 0]}]

\* LockCoin (locked = 1) and UnlockCoin (locked = 0): INSERT ... ON
\* CONFLICT(COIN) DO UPDATE SET LOCKED
LockCoin(db, coin, locked) ==
  [db EXCEPT !.coininfo =
     IF HasCoinInfo(db, coin)
     THEN {IF i.coin = coin THEN [i EXCEPT !.locked = locked] ELSE i : i \in @}
     ELSE @ \cup {[coin |-> coin, memo |-> "", locked |-> locked]}]

\* ExportCoinControlData: the tags and the collections with their coins, the
\* COININFO rows
ExportCoinControlData(db) ==
  [tags |-> {[id |-> t.id, name |-> t.name, color |-> t.color,
              coins |-> GetCoinByTag(db, t.id)] : t \in db.tags},
   collections |-> {[id |-> c.id, name |-> c.name,
                     add_new_coin |-> c.settings.add_new_coin,
                     auto_lock |-> c.settings.auto_lock,
                     coins |-> GetCoinInCollection(db, c.id)] :
                    c \in db.collections},
   coininfo |-> db.coininfo]

\* ClearCoinControlData: DELETE FROM each of the five tables
ClearCoinControlData(db) == NoCoinControl

\* ImportCoinControlData, the tags: upsert by ID, then one COINTAGS row per
\* coin
ImportTags(db, tags) ==
  [db EXCEPT
     !.tags = {t \in @ : \A b \in tags : b.id # t.id}
              \cup {[id |-> b.id, name |-> b.name, color |-> b.color] :
                    b \in tags},
     !.cointags = @ \cup UNION {{[coin |-> c, tagid |-> b.id] : c \in b.coins} :
                                b \in tags}]

\* ImportCoinControlData, the collections
ImportCollections(db, collections) ==
  [db EXCEPT
     !.collections =
        {c \in @ : \A b \in collections : b.id # c.id}
        \cup {[id |-> b.id, name |-> b.name,
               settings |-> [add_new_coin |-> b.add_new_coin,
                             auto_lock |-> b.auto_lock]] : b \in collections},
     !.coincollections =
        @ \cup UNION {{[coin |-> c, collectionid |-> b.id] : c \in b.coins} :
                      b \in collections}]

\* ImportCoinControlData, the COININFO rows: upsert by COIN
ImportCoinInfo(db, coininfo) ==
  [db EXCEPT !.coininfo = {i \in @ : \A b \in coininfo : b.coin # i.coin}
                          \cup coininfo]

\* ImportCoinControlData
ImportCoinControlData(db, data) ==
  ImportCoinInfo(
    ImportCollections(ImportTags(ClearCoinControlData(db), data.tags),
                      data.collections),
    data.coininfo)

\* one more coin-control call; the VTX table is not touched
CoinStep == steps < MaxCoinSteps /\ steps' = steps + 1 /\ UNCHANGED <<vtx, ret>>

\* what a call leaves in ccret
CoinCall(op, id, updated, gone) ==
  [op |-> op, id |-> id, updated |-> updated, gone |-> gone,
   bundle |-> ccret.bundle]

DoCreateCoinTag ==
  \E name \in TagNames :
    /\ CoinStep
    /\ \A t \in cc.tags : t.name # name
    /\ NextRowId(cc.tags) <= MaxRowId
    /\ cc' = CreateCoinTag(cc, name, "c")
    /\ ccret' = CoinCall("CreateCoinTag", NextRowId(cc.tags), TRUE, {})

DoDeleteCoinTag ==
  \E tag_id \in 1..MaxRowId :
    /\ CoinStep
    /\ cc' = DeleteCoinTag(cc, tag_id)
    /\ ccret' = CoinCall("DeleteCoinTag", tag_id,
                         \E t \in cc.tags : t.id = tag_id,
                         cc.cointags \ cc'.cointags)

DoAddToCoinTag ==
  \E tag_id \in 1..MaxRowId, coin \in CoinIds :
    /\ CoinStep
    /\ cc' = AddToCoinTag(cc, tag_id, coin)
    /\ ccret' = CoinCall("AddToCoinTag", tag_id, cc' # cc, {})

DoCreateCoinCollection ==
  \E name \in CollectionNames :
    /\ CoinStep
    /\ \A c \in cc.collections : c.name # name
    /\ NextRowId(cc.collections) <= MaxRowId
    /\ cc' = CreateCoinCollection(cc, name)
    /\ ccret' = CoinCall("CreateCoinCollection", NextRowId(cc.collections),
                         TRUE, {})

DoDeleteCoinCollection ==
  \E collection_id \in 1..MaxRowId :
    /\ CoinStep
    /\ cc' = DeleteCoinCollection(cc, collection_id)
    /\ ccret' = CoinCall("DeleteCoinCollection", collection_id,
                         \E c \in cc.collections : c.id = collection_id,
                         cc.coincollections \ cc'.coincollections)

DoAddToCoinCollection ==
  \E collection_id \in 1..MaxRowId, coin \in CoinIds :
    /\ CoinStep
    /\ cc' = AddToCoinCollection(cc, collection_id, coin)
    /\ ccret' = CoinCall("AddToCoinCollection", collection_id, cc' # cc, {})

DoUpdateCoinMemo ==
  \E coin \in CoinIds :
    /\ CoinStep
    /\ cc' = UpdateCoinMemo(cc, coin, "m")
    /\ ccret' = CoinCall("UpdateCoinMemo", 0, TRUE, {})

DoLockCoin ==
  \E coin \in CoinIds, locked \in {0, 1} :
    /\ CoinStep
    /\ cc' = LockCoin(cc, coin, locked)
    /\ ccret' = CoinCall("LockCoin", locked, TRUE, {})

DoExportCoinControlData ==
  /\ CoinStep
  /\ cc' = cc
  /\ ccret' = [CoinCall("ExportCoinControlData", 0, TRUE, {}) EXCEPT
                 !.bundle = [exported |-> TRUE, source |-> cc,
                             data |-> ExportCoinControlData(cc)]]

DoImportCoinControlData ==
  /\ CoinStep
  /\ ccret.bundle.exported
  /\ cc' = ImportCoinControlData(cc, ccret.bundle.data)
  /\ ccret' = CoinCall("ImportCoinControlData", 0, TRUE, {})

\* the variables the coin-control calls leave alone
nonccvars == <<coinvars, addrvars, syncvars, updvars, runvars, cachevars, ancestryvars>>

InitCoinControl ==
  /\ vtx = {PendingRow("A")} /\ ret = NoAnswer /\ steps = 0
  /\ CoinsIdle /\ AddrIdle /\ SyncIdle /\ UpdIdle /\ CoinControlIdle /\ RunIdle /\ CacheIdle /\ AncestryIdle

NextCoinControl ==
  \/ DoCreateCoinTag /\ UNCHANGED nonccvars
  \/ DoDeleteCoinTag /\ UNCHANGED nonccvars
  \/ DoAddToCoinTag /\ UNCHANGED nonccvars
  \/ DoCreateCoinCollection /\ UNCHANGED nonccvars
  \/ DoDeleteCoinCollection /\ UNCHANGED nonccvars
  \/ DoAddToCoinCollection /\ UNCHANGED nonccvars
  \/ DoUpdateCoinMemo /\ UNCHANGED nonccvars
  \/ DoLockCoin /\ UNCHANGED nonccvars
  \/ DoExportCoinControlData /\ UNCHANGED nonccvars
  \/ DoImportCoinControlData /\ UNCHANGED nonccvars

SpecCoinControl == InitCoinControl /\ [][NextCoinControl]_vars

\* the call of the step was op
CoinCalled(op) == steps' = steps + 1 /\ ccret'.op = op

\* C23: DeleteCoinTag(id) and DeleteCoinCollection(id) remove the row of
\* the tag (collection) and exactly the join rows that reference that id;
\* the join rows of other tags and collections, the COININFO rows and the
\* transaction table are unchanged.
C23_DeleteCascadesToJoinOnly ==
  [][/\ CoinCalled("DeleteCoinTag") =>
          /\ cc'.tags = {t \in cc.tags : t.id # ccret'.id}
          /\ cc'.cointags = {j \in cc.cointags : j.tagid # ccret'.id}
          /\ cc'.collections = cc.collections
          /\ cc'.coincollections = cc.coincollections
          /\ cc'.coininfo = cc.coininfo
          /\ vtx' = vtx
     /\ CoinCalled("DeleteCoinCollection") =>
          /\ cc'.collections = {c \in cc.collections : c.id # ccret'.id}
          /\ cc'.coincollections =
               {j \in cc.coincollections : j.collectionid # ccret'.id}
          /\ cc'.tags = cc.tags
          /\ cc'.cointags = cc.cointags
          /\ cc'.coininfo = cc.coininfo
          /\ vtx' = vtx]_vars

\* a tag with a coin was deleted while another tag holds a coin and a coin
\* has a COININFO row
C23_Witness ==
  /\ ccret.op = "DeleteCoinTag" /\ ccret.updated /\ ccret.gone # {}
  /\ cc.cointags # {} /\ cc.coininfo # {}

\* the tables a bundle describes
TablesOf(data) ==
  [tags |-> {[id |-> b.id, name |-> b.name, color |-> b.color] : b \in data.tags},
   collections |-> {[id |-> b.id, name |-> b.name,
                     settings |-> [add_new_coin |-> b.add_new_coin,
                                   auto_lock |-> b.auto_lock]] :
                    b \in data.collections},
   cointags |-> {j \in [coin : CoinIds, tagid : 1..MaxRowId] :
                   \E b \in data.tags : b.id = j.tagid /\ j.coin \in b.coins},
   coincollections |->
     {j \in [coin : CoinIds, collectionid : 1..MaxRowId] :
        \E b \in data.collections : b.id = j.collectionid /\ j.coin \in b.coins},
   coininfo |-> data.coininfo]

\* C24: ImportCoinControlData fully replaces the coin-control state: after
\* the import the tags, the collections, their coins and the COININFO rows
\* are exactly those of the bundle, whatever the state before; importing the
\* output of ExportCoinControlData therefore restores the exported state.
C24_ImportRestoresExport ==
  [][CoinCalled("ImportCoinControlData") =>
       /\ cc' = TablesOf(ccret.bundle.data)
       /\ cc' = ccret.bundle.source]_vars

\* ---------------------------------------------------------------------------
\* The status lock, the worker's task queue and the per-connection caches
\* (ElectrumSynchronizer::Run and what it posts to io_service_)
\* ---------------------------------------------------------------------------

\* the connection may be lost this many times less one
MaxResets == 2

\* notifications waiting for the worker
MaxQueue == 2

\* one access of status_: who, how, where, whether the thread held
\* status_mutex_, and whether the write is followed by notify_all
Access(t, kind, site) ==
  [thread |-> t, kind |-> kind, site |-> site,
   locked |-> status_mutex_ = t, notified |-> kind = "write"]

\* std::lock_guard / std::unique_lock on status_mutex_
Lock(t) == status_mutex_ = "free" /\ status_mutex_' = t

\* the end of the guard's scope
Unlock == status_mutex_' = "free"

Goto(t, pc) == thread_pc' = [thread_pc EXCEPT ![t] = pc]

\* where a thread is after Run() returned
AfterRun(t) == IF t = "user" THEN "free" ELSE "idle"

\* a store write or a chain tip write, with the connection whose data it
\* carries and the number of cache resets so far
Apply(what, conn) ==
  [called |-> TRUE, what |-> what, conn |-> conn, resets |-> resets]

\* connection_listener_(status, percent)
Event(status, percent) == [status |-> status, percent |-> percent]

\* the end of the loop over the wallets, of which there is one:
\* connection_listener_(SYNCING, ++process * 100 / wallet_ids.size()), and
\* after the loop connection_listener_(ONLINE, 100)
WalletsDone(events) ==
  events \o <<Event("SYNCING", (1 * 100) \div 1), Event("ONLINE", 100)>>

\* Run() keeps the caches of the previous connection (variant of the next one)
KeptCaches(tip, subscribed) == [chain_tip |-> tip, subscribed |-> subscribed]

\* chain_tip_ = 0; scripthash_to_wallet_address_.clear();
ClearedCaches(tip, subscribed) == [chain_tip |-> 0, subscribed |-> {}]

\* scripthash_to_wallet_address_[scripthash] = address, by a call that talks
\* to connection conn
Subscribed(conn) == {[scripthash |-> "X", conn |-> conn]}

\* std::lock_guard<std::mutex> guard(status_mutex_) at the top of Run()
RunLock(t) ==
  /\ thread_pc[t] = "run"
  /\ Lock(t)
  /\ Goto(t, "run_locked")
  /\ UNCHANGED <<status_, access, worker_task, queue, client_, chain_tip_,
                 scripthash_to_wallet_address_, resets, applied,
                 connection_events>>

\* if (status_ == Status::STOPPED) return; status_ = Status::CONNECTING;
\* status_cv_.notify_all();
RunSetConnecting(t) ==
  /\ thread_pc[t] = "run_locked"
  /\ Unlock
  /\ IF status_ = "STOPPED"
     THEN /\ access' = Access(t, "read", "Run:55")
          /\ status_' = status_
          /\ Goto(t, AfterRun(t))
     ELSE /\ access' = Access(t, "write", "Run:56")
          /\ status_' = "CONNECTING"
          /\ Goto(t, "run_reset")
  /\ UNCHANGED <<worker_task, queue, client_, chain_tip_,
                 scripthash_to_wallet_address_, resets, applied,
                 connection_events>>

\* the caches are cleared and the connection attempt is posted to the worker
RunClearCaches(t) ==
  /\ thread_pc[t] = "run_reset"
  /\ LET cleared == ClearedCaches(chain_tip_, scripthash_to_wallet_address_)
     IN  /\ chain_tip_' = cleared.chain_tip
         /\ scripthash_to_wallet_address_' = cleared.subscribed
  /\ resets' = resets + 1
  /\ queue' = Append(queue, [task |-> "Connect", conn |-> 0])
  /\ Goto(t, AfterRun(t))
  /\ UNCHANGED <<status_, status_mutex_, access, worker_task, client_, applied,
                 connection_events>>

\* the first step of a task of the worker
FirstPc(task) ==
  CASE task = "Reconnect" -> "run"
    [] task = "Connect" -> "connect"
    [] task = "Status" -> "status"
    [] task = "Header" -> "header"

\* io_service_ runs the next handler; a handler runs to completion
WorkerTakes ==
  /\ thread_pc["worker"] = "idle"
  /\ queue # <<>>
  /\ worker_task' = Head(queue)
  /\ queue' = Tail(queue)
  /\ Goto("worker", FirstPc(Head(queue).task))
  /\ UNCHANGED <<status_, status_mutex_, access, client_, chain_tip_,
                 scripthash_to_wallet_address_, resets, applied,
                 connection_events>>

\* client_ = std::unique_ptr<ElectrumClient>(new ElectrumClient(...)), which
\* throws when the server cannot be reached
NewClient ==
  /\ thread_pc["worker"] = "connect"
  /\ \E reached \in BOOLEAN :
       IF reached
       THEN /\ client_' = [conn |-> client_.conn + 1, alive |-> TRUE,
                           listening |-> FALSE]
            /\ Goto("worker", "connected")
       ELSE /\ client_' = client_
            /\ Goto("worker", "connect_failed")
  /\ UNCHANGED <<status_, status_mutex_, access, worker_task, queue,
                 chain_tip_, scripthash_to_wallet_address_, resets, applied,
                 connection_events>>

\* the guards taken inside the posted handler and inside BlockchainSync
WorkerLock ==
  /\ thread_pc["worker"] \in {"connect_failed", "connected", "sync",
                              "sync_check", "sync_seq", "finish"}
  /\ Lock("worker")
  /\ Goto("worker", CASE thread_pc["worker"] = "connect_failed" -> "connect_failed_locked"
                      [] thread_pc["worker"] = "connected" -> "connected_locked"
                      [] thread_pc["worker"] = "sync" -> "sync_locked"
                      [] thread_pc["worker"] = "sync_check" -> "sync_check_locked"
                      [] thread_pc["worker"] = "sync_seq" -> "sync_seq_locked"
                      [] thread_pc["worker"] = "finish" -> "finish_locked")
  /\ connection_events' =
       IF thread_pc["worker"] = "sync" THEN <<Event("OFFLINE", 0)>>
       ELSE connection_events
  /\ UNCHANGED <<status_, access, worker_task, queue, client_, chain_tip_,
                 scripthash_to_wallet_address_, resets, applied>>

\* catch (...) { status_ = Status::UNINITIALIZED; notify_all(); return; }
ConnectFailed ==
  /\ thread_pc["worker"] = "connect_failed_locked"
  /\ Unlock
  /\ access' = Access("worker", "write", "Run:75")
  /\ status_' = "UNINITIALIZED"
  /\ Goto("worker", "idle")
  /\ UNCHANGED <<worker_task, queue, client_, chain_tip_,
                 scripthash_to_wallet_address_, resets, applied,
                 connection_events>>

\* if (status_ != Status::CONNECTING) return; status_ = Status::SYNCING;
SetSyncing ==
  /\ thread_pc["worker"] = "connected_locked"
  /\ Unlock
  /\ IF status_ # "CONNECTING"
     THEN /\ access' = Access("worker", "read", "Run:81")
          /\ status_' = status_
          /\ Goto("worker", "idle")
     ELSE /\ access' = Access("worker", "write", "Run:82")
          /\ status_' = "SYNCING"
          /\ Goto("worker", "sync")
  /\ UNCHANGED <<worker_task, queue, client_, chain_tip_,
                 scripthash_to_wallet_address_, resets, applied,
                 connection_events>>

\* BlockchainSync up to the choice of the path: the status test, the header
\* subscription whose answer sets the chain tip, the scripthash listener
SubscribeHeaders ==
  /\ thread_pc["worker"] = "sync_locked"
  /\ Unlock
  /\ access' = Access("worker", "read", "BlockchainSync:305")
  /\ IF Connected(status_) /\ client_.alive
     THEN /\ chain_tip_' = client_.conn
          /\ applied' = Apply("SetChainTip", client_.conn)
          /\ client_' = [client_ EXCEPT !.listening = TRUE]
          /\ connection_events' = Append(connection_events, Event("SYNCING", 0))
          /\ \E batched \in BOOLEAN :
               Goto("worker", IF batched THEN "sync_batch" ELSE "sync_seq")
     ELSE /\ UNCHANGED <<chain_tip_, applied, client_, connection_events>>
          /\ Goto("worker", "finish")
  /\ UNCHANGED <<status_, worker_task, queue, scripthash_to_wallet_address_,
                 resets>>

\* SubscribeAddresses: the map is filled, then the server is asked
SubscribeAddressesStep ==
  /\ thread_pc["worker"] = "sync_batch"
  /\ scripthash_to_wallet_address_' =
       scripthash_to_wallet_address_ \cup Subscribed(client_.conn)
  /\ Goto("worker", IF client_.alive THEN "sync_check" ELSE "finish")
  /\ UNCHANGED <<status_, status_mutex_, access, worker_task, queue, client_,
                 chain_tip_, resets, applied, connection_events>>

\* the test of the batch loop, under a guard of its own
BatchCheck ==
  /\ thread_pc["worker"] = "sync_check_locked"
  /\ Unlock
  /\ access' = Access("worker", "read", "BlockchainSync:329")
  /\ Goto("worker", IF Connected(status_) THEN "sync_update" ELSE "finish")
  /\ UNCHANGED <<status_, worker_task, queue, client_, chain_tip_,
                 scripthash_to_wallet_address_, resets, applied,
                 connection_events>>

\* UpdateScripthashesStatus, called with no guard in scope: its
\* UpdateTransactions reads status_ and writes the store
BatchUpdate ==
  /\ thread_pc["worker"] = "sync_update"
  /\ IF client_.alive /\ scripthash_to_wallet_address_ # {}
     THEN /\ access' = Access("worker", "read", "UpdateTransactions:258")
          /\ applied' = Apply("UpdateTransactions", client_.conn)
     ELSE UNCHANGED <<access, applied>>
  /\ connection_events' = IF client_.alive THEN WalletsDone(connection_events)
                          ELSE connection_events
  /\ Goto("worker", "finish")
  /\ UNCHANGED <<status_, status_mutex_, worker_task, queue, client_,
                 chain_tip_, scripthash_to_wallet_address_, resets>>

\* one turn of the sequential loop; the guard is held over the subscription
\* and over UpdateScripthashStatus
SequentialUpdate ==
  /\ thread_pc["worker"] = "sync_seq_locked"
  /\ Unlock
  /\ IF Connected(status_)
     THEN /\ scripthash_to_wallet_address_' =
               scripthash_to_wallet_address_ \cup Subscribed(client_.conn)
          /\ IF client_.alive
             THEN /\ access' = Access("worker", "read", "UpdateTransactions:192")
                  /\ applied' = Apply("UpdateTransactions", client_.conn)
                  /\ connection_events' = WalletsDone(connection_events)
             ELSE /\ access' = Access("worker", "read", "BlockchainSync:343")
                  /\ UNCHANGED <<applied, connection_events>>
     ELSE /\ access' = Access("worker", "read", "BlockchainSync:343")
          /\ UNCHANGED <<scripthash_to_wallet_address_, applied,
                         connection_events>>
  /\ Goto("worker", "finish")
  /\ UNCHANGED <<status_, worker_task, queue, client_, chain_tip_, resets>>

\* if (status_ != Status::SYNCING) return; status_ = Status::READY;
SetReady ==
  /\ thread_pc["worker"] = "finish_locked"
  /\ Unlock
  /\ IF status_ # "SYNCING"
     THEN /\ access' = Access("worker", "read", "Run:92")
          /\ status_' = status_
     ELSE /\ access' = Access("worker", "write", "Run:93")
          /\ status_' = "READY"
  /\ Goto("worker", "idle")
  /\ UNCHANGED <<worker_task, queue, client_, chain_tip_,
                 scripthash_to_wallet_address_, resets, applied,
                 connection_events>>

\* the scripthash listener: UpdateScripthashStatus with no guard taken
OnScripthashStatusChange ==
  /\ thread_pc["worker"] = "status"
  /\ IF scripthash_to_wallet_address_ # {} /\ client_.alive
     THEN /\ access' = Access("worker", "read", "UpdateTransactions:192")
          /\ applied' = Apply("UpdateTransactions", worker_task.conn)
     ELSE UNCHANGED <<access, applied>>
  /\ Goto("worker", "idle")
  /\ UNCHANGED <<status_, status_mutex_, worker_task, queue, client_,
                 chain_tip_, scripthash_to_wallet_address_, resets,
                 connection_events>>

\* the header listener: chain_tip_ = rs["height"]; SetChainTip
OnHeader ==
  /\ thread_pc["worker"] = "header"
  /\ chain_tip_' = worker_task.conn
  /\ applied' = Apply("SetChainTip", worker_task.conn)
  /\ Goto("worker", "idle")
  /\ UNCHANGED <<status_, status_mutex_, access, worker_task, queue, client_,
                 scripthash_to_wallet_address_, resets, connection_events>>

\* the server pushes a notification, which becomes a task of the worker
BackendNotifies ==
  /\ client_.alive /\ client_.listening
  /\ Len(queue) < MaxQueue
  /\ \E task \in {"Status", "Header"} :
       queue' = Append(queue, [task |-> task, conn |-> client_.conn])
  /\ UNCHANGED <<status_, status_mutex_, access, thread_pc, worker_task,
                 client_, chain_tip_, scripthash_to_wallet_address_, resets,
                 applied, connection_events>>

\* the connection is lost: the client's callback posts sleep_for and Run()
ConnectionDrops ==
  /\ client_.alive
  /\ resets < MaxResets
  /\ client_' = [client_ EXCEPT !.alive = FALSE]
  /\ queue' = Append(queue, [task |-> "Reconnect", conn |-> client_.conn])
  /\ UNCHANGED <<status_, status_mutex_, access, thread_pc, worker_task,
                 chain_tip_, scripthash_to_wallet_address_, resets, applied,
                 connection_events>>

\* the guard of a call of the user's thread
UserLock ==
  /\ thread_pc["user"] = "free"
  /\ Lock("user")
  /\ \E op \in {"lookahead", "destroy"} : Goto("user", op)
  /\ UNCHANGED <<status_, access, worker_task, queue, client_, chain_tip_,
                 scripthash_to_wallet_address_, resets, applied,
                 connection_events>>

\* LookAhead: SubscribeAddress and UpdateScripthashStatus under the guard
LookAheadLocked ==
  /\ thread_pc["user"] = "lookahead"
  /\ Unlock
  /\ IF Connected(status_)
     THEN /\ scripthash_to_wallet_address_' =
               scripthash_to_wallet_address_ \cup Subscribed(client_.conn)
          /\ IF client_.alive
             THEN /\ access' = Access("user", "read", "UpdateTransactions:192")
                  /\ applied' = Apply("UpdateTransactions", client_.conn)
             ELSE /\ access' = Access("user", "read", "LookAhead:397")
                  /\ applied' = applied
     ELSE /\ access' = Access("user", "read", "LookAhead:397")
          /\ UNCHANGED <<scripthash_to_wallet_address_, applied>>
  /\ Goto("user", "free")
  /\ UNCHANGED <<status_, worker_task, queue, client_, chain_tip_, resets,
                 connection_events>>

\* ~ElectrumSynchronizer: status_ = Status::STOPPED; notify_all()
Destructor ==
  /\ thread_pc["user"] = "destroy"
  /\ Unlock
  /\ access' = Access("user", "write", "~ElectrumSynchronizer:38")
  /\ status_' = "STOPPED"
  /\ Goto("user", "joined")
  /\ UNCHANGED <<worker_task, queue, client_, chain_tip_,
                 scripthash_to_wallet_address_, resets, applied,
                 connection_events>>

nonrunvars == <<txvars, coinvars, addrvars, updvars, ccvars, sync_pc, requests, call, waiter, sync_threw, cachevars, ancestryvars>>

InitRun == Init

NextRun ==
  \/ RunLock("user") /\ UNCHANGED nonrunvars
  \/ RunLock("worker") /\ UNCHANGED nonrunvars
  \/ RunSetConnecting("user") /\ UNCHANGED nonrunvars
  \/ RunSetConnecting("worker") /\ UNCHANGED nonrunvars
  \/ RunClearCaches("user") /\ UNCHANGED nonrunvars
  \/ RunClearCaches("worker") /\ UNCHANGED nonrunvars
  \/ WorkerTakes /\ UNCHANGED nonrunvars
  \/ NewClient /\ UNCHANGED nonrunvars
  \/ WorkerLock /\ UNCHANGED nonrunvars
  \/ ConnectFailed /\ UNCHANGED nonrunvars
  \/ SetSyncing /\ UNCHANGED nonrunvars
  \/ SubscribeHeaders /\ UNCHANGED nonrunvars
  \/ SubscribeAddressesStep /\ UNCHANGED nonrunvars
  \/ BatchCheck /\ UNCHANGED nonrunvars
  \/ BatchUpdate /\ UNCHANGED nonrunvars
  \/ SequentialUpdate /\ UNCHANGED nonrunvars
  \/ SetReady /\ UNCHANGED nonrunvars
  \/ OnScripthashStatusChange /\ UNCHANGED nonrunvars
  \/ OnHeader /\ UNCHANGED nonrunvars
  \/ BackendNotifies /\ UNCHANGED nonrunvars
  \/ ConnectionDrops /\ UNCHANGED nonrunvars
  \/ UserLock /\ UNCHANGED nonrunvars
  \/ LookAheadLocked /\ UNCHANGED nonrunvars
  \/ Destructor /\ UNCHANGED nonrunvars

SpecRun == InitRun /\ [][NextRun]_vars

\* C25: every read and every write of the status happens while the accessing
\* thread holds the status lock, and every write is followed by a
\* notification of the condition variable.
C25_StatusUnderLock ==
  access.kind # "none" =>
    access.locked /\ (access.kind = "write" => access.notified)

\* C26: after a reconnect nothing of the previous connection is applied:
\* every store or chain tip update carries data of the connection opened
\* after the last cache reset, and the caches hold nothing older.
C26_ResetPrecedesUpdate ==
  /\ applied.called => applied.conn = applied.resets
  /\ chain_tip_ \in {0, resets}
  /\ \A e \in scripthash_to_wallet_address_ : e.conn = resets

C26_Witness ==
  /\ resets = 2
  /\ applied.called /\ applied.what = "UpdateTransactions"
  /\ applied.conn = 2
  /\ scripthash_to_wallet_address_ # {}

\* the worker's next step talks to the server (and, on the sequential path,
\* sleeps SUBCRIBE_DELAY_MS): the header subscription, SubscribeAddresses,
\* UpdateScripthashesStatus, one turn of the sequential loop, the
\* scripthash listener
WorkerFetches ==
  \/ thread_pc["worker"] \in {"sync_batch", "sync_update", "status"}
  \/ /\ thread_pc["worker"] \in {"sync_locked", "sync_seq_locked"}
     /\ Connected(status_)

\* C35: the status lock is not held across the network operations or the
\* sleep of the sync pass: while the worker subscribes, fetches histories
\* and transactions, or sleeps between two addresses, it does not hold the
\* lock, so a call of the user or the destructor can take it.
C35_WorkerFetchesUnlocked == WorkerFetches => status_mutex_ # "worker"

\* the events of one pass in the order OFFLINE(0), SYNCING with
\* non-decreasing percent, ONLINE(100), or a beginning of it
PassOrder(events) ==
  /\ events # <<>> => events[1] = Event("OFFLINE", 0)
  /\ \A i \in 2..Len(events) :
       \/ events[i].status = "SYNCING"
       \/ i = Len(events) /\ events[i] = Event("ONLINE", 100)
  /\ \A i, j \in 2..Len(events) :
       (i < j /\ events[j].status = "SYNCING")
         => events[i].percent <= events[j].percent

\* C38: whenever the status becomes READY at the end of a Run, the most
\* recent connection-listener event of that run is ONLINE with percent 100;
\* the connection events of one sync pass are emitted in the order
\* OFFLINE(0), SYNCING with non-decreasing percent, ONLINE(100).
C38_ReadyAfterOnline ==
  [][/\ PassOrder(connection_events')
     /\ (status_' = "READY" /\ status_ # "READY")
          => /\ connection_events' # <<>>
             /\ connection_events'[Len(connection_events')]
                  = Event("ONLINE", 100)]_vars

=============================================================================
